---- MODULE Spec2Model ----
(***************************************************************************)
(* Model of the vscode-pulsar-client messaging sessions                    *)
(* (MessageConsumerWebview, MessageProducerWebview) and of the cluster     *)
(* registry (PulsarClientManager).                                         *)
(*                                                                         *)
(* A session is one webview singleton.  Its WebSocket objects are kept in  *)
(* the sequence conns (every socket the session ever created); the field   *)
(* this.ws is an index into it, 0 standing for undefined.  Each event      *)
(* handler and each webview command is one action.  The two webviews       *)
(* share no mutable state, so a behaviour follows one of them: kind is     *)
(* chosen in Init.                                                         *)
(***************************************************************************)
EXTENDS Integers, Sequences, FiniteSets, TLC

\* ------------------------------------------------------------------ bounds
MaxConns == 2      \* WebSocket objects one session creates
MaxFrames == 2     \* frames exchanged by one session (inbound for the consumer, outbound sends for the producer)
MaxShows == 1      \* show() calls on one consumer session
MaxOpens == 2      \* show() calls on one producer session
MaxCalls == 2      \* addCluster / removeCluster calls on the registry

\* ------------------------------------------------------------- inputs
Topics == {"t0", "t2"}
Subscriptions == {"s1"}
NoKey == "(undefined)"
Keys == {"a", "ab"}
Patterns == {"a", "["}
NoPartition == -1
Names == {"c1", "c2"}
\* What a probe request can end with: an HTTP status, or NetworkError
\* (fetch rejected: no response, or the request timed out)
NetworkError == 0
\* and Timeout: the request's timer aborted it
Timeout == 1
ProbeOutcomes == {200, 401, 403, 500, NetworkError, Timeout}
\* healthCheck() and the list-clusters probe are only told apart as passed or not
PassFail == {200, NetworkError}

\* Partition count the admin API reports for a topic (metadata.partitions).
TopicPartitions(t) == IF t = "t2" THEN 2 ELSE 0

VARIABLES
    kind,               \* "consumer" or "producer": which webview this behaviour follows
    panel,              \* this.panel is defined
    htmlPartitions,     \* partitionCount the rendered page was built with
    ws,                 \* this.ws: index into conns, 0 = undefined
    conns,              \* every WebSocket the session created
    topicName,          \* this.topicName
    partitionCount,     \* this.partitionCount
    selectedPartition,  \* producer: this.selectedPartition
    lookups,            \* show() calls awaiting getTopicMetadata: sequence of topics
    nShows,             \* show() calls made
    isConnected,        \* consumerState/producerState.isConnected
    messageCount,       \* consumerState/producerState.messageCount
    errorCount,         \* producerState.errorCount
    subscription,       \* consumerState.subscription
    keyFilter,          \* consumerState.keyFilter
    keyFilterMode,      \* consumerState.keyFilterMode
    autoStopOnMatch,    \* consumerState.autoStopOnMatch
    compiledKeyFilterRegex, \* this.compiledKeyFilterRegex: a pattern, or "" for undefined
    messages,           \* consumer: this.messages (newest first), message ids
    nextId,             \* id of the next frame (consumer: inbound message, producer: send)
    rejected,           \* producer: ids of the sends refused with 'WebSocket not connected'
    autoStopped,        \* consumer: autoStopped events posted since the last connect
    lastAct,            \* the step just taken
    lastPosts,          \* commands posted to the webview by the step just taken
    \* ---- PulsarClientManager
    clusters,           \* this.clusters: name -> connection
    persisted,          \* the 'clusters' value of the configuration store: name -> saved entry
    secrets,            \* names with credentials in the secret store
    calls,              \* addCluster / removeCluster calls, in the order they were made
    warned,             \* names logger.warn reported limited permissions for
    regAct,             \* the registry step just taken: <<action, call>>
    resolved,           \* the last getAdminClient(name): the name, and whether a client was found
    call,               \* the admin operation in progress or just ended
    log,                \* the requests that operation has completed, in order
    timer,              \* request(): timeoutId is pending; requestTimeout ms have passed
    \* ---- addresses and enumerations
    topic,              \* the topic address an admin operation is given: a sequence of characters
    parsed,             \* what parseTopic returned for it
    path,               \* the request path the operation built
    listing,            \* what the broker and the configuration hold for an enumeration
    shown,              \* what the enumeration returned
    \* ---- settings, events, import, refreshing views
    manualNamespaces,   \* the 'manualNamespaces' setting as config.get returns it: cluster -> list
    updates,            \* config.update('manualNamespaces', v) calls not yet completed: the values
    bus,                \* EventBus: the listeners of one event, and what the last emit invoked
    importing,          \* importConfiguration: the imported cluster being processed
    details             \* TopicDetailsWebview / ClusterDashboardWebview: panel and timers

sessionVars == <<kind, panel, htmlPartitions, ws, conns, topicName, partitionCount,
                 selectedPartition, lookups, nShows, isConnected, messageCount,
                 errorCount, subscription, keyFilter, keyFilterMode, autoStopOnMatch,
                 compiledKeyFilterRegex, messages, nextId, rejected, autoStopped,
                 lastAct, lastPosts>>

registryVars == <<clusters, persisted, secrets, calls, warned, regAct, resolved>>

adminVars == <<call, log, timer>>

fnVars == <<topic, parsed, path, listing, shown>>

extVars == <<manualNamespaces, updates, bus, importing, details>>

vars == <<sessionVars, registryVars, adminVars, fnVars, extVars>>

\* No address was parsed and nothing was enumerated
NotParsed == [persistent |-> TRUE, tenant |-> <<>>, namespace |-> <<>>, topicName |-> <<>>,
              form |-> 0]
NoPath == [op |-> "", tenant |-> <<>>, namespace |-> <<>>, topicName |-> <<>>]
FnIdle ==
    /\ topic = <<>> /\ parsed = NotParsed /\ path = NoPath
    /\ listing = <<>> /\ shown = <<>>

\* No setting was written, no listener registered, nothing imported, no view shown
NoImport == [pc |-> "idle", strategy |-> "", conn |-> <<>>, existed |-> FALSE,
             hadSecret |-> FALSE, call |-> 0, outcome |-> ""]
ExtIdle ==
    /\ manualNamespaces = [n \in Names |-> <<>>]
    /\ updates = <<>>
    /\ bus = [listeners |-> <<>>, registered |-> 0, emits |-> 0, snapshot |-> <<>>,
              invoked |-> <<>>, fired |-> <<>>]
    /\ importing = NoImport
    /\ details = [panel |-> FALSE, topicName |-> "", refreshInterval |-> 0, timers |-> {},
                  created |-> 0, pending |-> 0, shows |-> 0]

\* No admin operation was called
AdminIdle ==
    /\ call = [op |-> "", pc |-> "done", caught |-> FALSE, ok |-> TRUE, status |-> -1,
               message |-> "", value |-> [defined |-> FALSE, partitions |-> 0, topics |-> <<>>]]
    /\ log = <<>>
    /\ timer = [armed |-> FALSE, elapsed |-> FALSE]

\* The registry before any call: what the PulsarClientManager constructor leaves
RegistryIdle ==
    /\ clusters = <<>> /\ persisted = <<>> /\ secrets = {} /\ calls = <<>>
    /\ warned = {} /\ regAct = <<"Init", 0>>
    /\ resolved = [name |-> "", found |-> FALSE]

\* ------------------------------------------------------------- transport
\* readyState of a socket.  "CLOSING" is a socket on which close() was called
\* while OPEN (closing handshake in progress, inbound frames are still
\* delivered); "ABORTING" one on which close() was called while CONNECTING
\* (an 'error' and a 'close' event follow); "ERRORED" one that emitted 'error'
\* and has its 'close' event pending.
ReadyOpen(c) == conns[c].state = "OPEN"
Live(c) == conns[c].state \in {"CONNECTING", "OPEN"}

NewConn(t, p) ==
    [state |-> "CONNECTING", topic |-> t, partition |-> p, recv |-> <<>>, sent |-> <<>>]

\* ws.close() on socket c
SocketClose(cs, c) ==
    [cs EXCEPT ![c].state =
        CASE @ = "OPEN" -> "CLOSING"
          [] @ = "CONNECTING" -> "ABORTING"
          [] OTHER -> @]

\* closeWebSocket(): if (this.ws) { this.ws.close(); this.ws = undefined; }
closeWebSocket(cs, w) == IF w # 0 THEN SocketClose(cs, w) ELSE cs

\* postMessage(): delivered only while the panel exists
Post(S) == IF panel THEN S ELSE {}

\* key, matches, hide: for a consumed message, its key and what the handler
\* computed as matchesFilter and shouldHide
\* steps: what the handler of a consumed message did with it, in the order it
\* did it ("filter", "emit": messageReceived posted, "ack": {messageId} sent)
Act(n) == [name |-> n, late |-> FALSE, frame |-> "", key |-> NoKey,
           matches |-> FALSE, hide |-> FALSE, steps |-> <<>>]
\* a frame of kind f delivered on socket c; late: close() had been called on c
FrameAct(c, f) ==
    [Act("OnMessage") EXCEPT !.late = conns[c].state = "CLOSING", !.frame = f]

\* ---------------------------------------------------------------- KeyFilter
\* Every pattern is taken to compile
RegexCompilesAll(p) == TRUE

\* new RegExp(p) returns rather than throws
RegexCompiles(p) == p # "["
\* new RegExp(p).test(k) for a string k: "a" finds an a in k, ".*" matches
\* every string, the empty one included
RegexTest(p, k) == (p = "a" /\ k \in {"a", "ab"}) \/ p = ".*"

matchesKeyFilter(k) ==
    IF keyFilter = "" THEN FALSE
    ELSE IF k \in {NoKey, ""} THEN FALSE     \* !messageKey: undefined or ''
    ELSE IF keyFilterMode = "exact" THEN k = keyFilter
    ELSE IF compiledKeyFilterRegex = "" THEN FALSE
    ELSE RegexTest(compiledKeyFilterRegex, k)

\* ----------------------------------------------------------------- consumer
ConsumerInit ==
    /\ kind = "consumer"
    /\ panel = FALSE /\ htmlPartitions = 0
    /\ ws = 0 /\ conns = <<>>
    /\ topicName = "" /\ partitionCount = 0 /\ selectedPartition = 0
    /\ lookups = <<>> /\ nShows = 0
    /\ isConnected = FALSE /\ messageCount = 0 /\ errorCount = 0
    /\ subscription = "" /\ keyFilter = "" /\ keyFilterMode = "exact"
    /\ autoStopOnMatch = FALSE /\ compiledKeyFilterRegex = ""
    /\ messages = <<>> /\ nextId = 1 /\ rejected = {} /\ autoStopped = 0
    /\ lastAct = Act("Init") /\ lastPosts = {}
    /\ RegistryIdle
    /\ AdminIdle /\ FnIdle /\ ExtIdle

Remove(s, i) == [j \in 1..(Len(s) - 1) |-> IF j < i THEN s[j] ELSE s[j + 1]]

\* show(), up to the await of getTopicMetadata
ConsumerShowStart(t) ==
    /\ kind = "consumer"
    /\ UNCHANGED registryVars
    /\ UNCHANGED <<adminVars, fnVars, extVars>>
    /\ nShows < MaxShows
    /\ nShows' = nShows + 1
    /\ topicName' = t
    /\ messages' = <<>>
    /\ messageCount' = 0 /\ isConnected' = FALSE /\ subscription' = ""
    /\ keyFilter' = "" /\ keyFilterMode' = "exact" /\ autoStopOnMatch' = FALSE
    /\ partitionCount' = 0
    /\ lookups' = Append(lookups, t)
    /\ lastAct' = Act("ShowStart") /\ lastPosts' = {}
    /\ UNCHANGED <<kind, panel, htmlPartitions, ws, conns, selectedPartition, errorCount,
                   compiledKeyFilterRegex, nextId, rejected, autoStopped>>

\* show(), from the return of getTopicMetadata (ok: it resolved) to the end
ConsumerShowResume(i, ok) ==
    /\ kind = "consumer"
    /\ UNCHANGED registryVars
    /\ UNCHANGED <<adminVars, fnVars, extVars>>
    /\ i \in 1..Len(lookups)
    /\ partitionCount' = IF ok THEN TopicPartitions(lookups[i]) ELSE 0
    /\ lookups' = Remove(lookups, i)
    /\ conns' = closeWebSocket(conns, ws)
    /\ ws' = 0
    /\ panel' = TRUE
    /\ htmlPartitions' = partitionCount'
    /\ lastAct' = Act("ShowResume") /\ lastPosts' = {}
    /\ UNCHANGED <<kind, topicName, selectedPartition, nShows, isConnected, messageCount,
                   errorCount, subscription, keyFilter, keyFilterMode, autoStopOnMatch,
                   compiledKeyFilterRegex, messages, nextId, rejected, autoStopped>>

\* The partition the page sends with 'connect': the selected option of the
\* partition <select>, which exists only on a page rendered as partitioned.
PagePartitions == IF htmlPartitions > 0 THEN 0..(htmlPartitions - 1) ELSE {NoPartition}

\* command 'connect' -> connectWebSocket(subscription, position, partition);
\* known: getClusterConnection(clusterName) is defined
ConsumerConnect(s, p, known) ==
    /\ kind = "consumer"
    /\ UNCHANGED registryVars
    /\ UNCHANGED <<adminVars, fnVars, extVars>>
    /\ panel
    /\ ~isConnected            \* the page hides the Connect button while it shows Connected
    /\ p \in PagePartitions
    /\ Len(conns) < MaxConns
    /\ IF ~known
         THEN /\ lastPosts' = Post({"error"})
              /\ lastAct' = Act("Connect")
              /\ UNCHANGED <<conns, ws, subscription, autoStopped>>
         ELSE /\ subscription' = s
              /\ conns' = Append(conns, NewConn(topicName, p))
              /\ ws' = Len(conns) + 1
              /\ autoStopped' = 0
              /\ lastPosts' = {}
              /\ lastAct' = Act("Connect")
    /\ UNCHANGED <<kind, panel, htmlPartitions, topicName, partitionCount, selectedPartition,
                   lookups, nShows, isConnected, messageCount, errorCount, keyFilter,
                   keyFilterMode, autoStopOnMatch, compiledKeyFilterRegex, messages, nextId,
                   rejected>>

\* command 'disconnect'
ConsumerDisconnect ==
    /\ kind = "consumer"
    /\ UNCHANGED registryVars
    /\ UNCHANGED <<adminVars, fnVars, extVars>>
    /\ panel
    /\ isConnected             \* the page shows the Disconnect button only while Connected
    /\ conns' = closeWebSocket(conns, ws)
    /\ ws' = 0
    /\ lastAct' = Act("Disconnect") /\ lastPosts' = {}
    /\ UNCHANGED <<kind, panel, htmlPartitions, topicName, partitionCount, selectedPartition,
                   lookups, nShows, isConnected, messageCount, errorCount, subscription,
                   keyFilter, keyFilterMode, autoStopOnMatch, compiledKeyFilterRegex,
                   messages, nextId, rejected, autoStopped>>

\* panel.onDidDispose
ConsumerDispose ==
    /\ kind = "consumer"
    /\ UNCHANGED registryVars
    /\ UNCHANGED <<adminVars, fnVars, extVars>>
    /\ panel
    /\ conns' = closeWebSocket(conns, ws)
    /\ ws' = 0
    /\ panel' = FALSE
    /\ lastAct' = Act("Dispose") /\ lastPosts' = {}
    /\ UNCHANGED <<kind, htmlPartitions, topicName, partitionCount, selectedPartition,
                   lookups, nShows, isConnected, messageCount, errorCount, subscription,
                   keyFilter, keyFilterMode, autoStopOnMatch, compiledKeyFilterRegex,
                   messages, nextId, rejected, autoStopped>>

\* command 'setKeyFilter'
ConsumerSetKeyFilter(p, mode, auto) ==
    /\ kind = "consumer"
    /\ UNCHANGED registryVars
    /\ UNCHANGED <<adminVars, fnVars, extVars>>
    /\ panel
    /\ keyFilterMode' = mode
    /\ autoStopOnMatch' = auto
    /\ IF p # "" /\ mode = "regex"
         THEN IF RegexCompiles(p)
                THEN compiledKeyFilterRegex' = p /\ keyFilter' = p
                ELSE compiledKeyFilterRegex' = "" /\ keyFilter' = ""
         ELSE compiledKeyFilterRegex' = "" /\ keyFilter' = p
    \* frame "warned": logger.warn reported 'Invalid regex pattern'
    /\ lastAct' = [Act("SetKeyFilter") EXCEPT
                     !.frame = IF p # "" /\ mode = "regex" /\ ~RegexCompiles(p)
                                 THEN "warned" ELSE ""]
    /\ lastPosts' = {}
    /\ UNCHANGED <<kind, panel, htmlPartitions, ws, conns, topicName, partitionCount,
                   selectedPartition, lookups, nShows, isConnected, messageCount, errorCount,
                   subscription, messages, nextId, rejected, autoStopped>>

\* ---- transport events of the consumer's sockets

\* ws.on('open')
ConsumerOnOpen(c) ==
    /\ kind = "consumer"
    /\ UNCHANGED registryVars
    /\ UNCHANGED <<adminVars, fnVars, extVars>>
    /\ c \in 1..Len(conns)
    /\ conns[c].state = "CONNECTING"
    /\ conns' = [conns EXCEPT ![c].state = "OPEN"]
    /\ isConnected' = TRUE
    /\ lastAct' = Act("OnOpen")
    /\ lastPosts' = Post({"connected", "status"})
    /\ UNCHANGED <<kind, panel, htmlPartitions, ws, topicName, partitionCount,
                   selectedPartition, lookups, nShows, messageCount, errorCount,
                   subscription, keyFilter, keyFilterMode, autoStopOnMatch,
                   compiledKeyFilterRegex, messages, nextId, rejected, autoStopped>>

\* this.messages.unshift(message); if (length > 100) pop()
MessageCap == 100
Unshift(ms, m) ==
    LET all == <<m>> \o ms
    IN  IF Len(all) > MessageCap THEN SubSeq(all, 1, Len(all) - 1) ELSE all

\* acknowledgeMessage(id): sends on this.ws when it is OPEN
acknowledgeMessage(cs, w, id) ==
    IF w # 0 /\ cs[w].state = "OPEN"
      THEN [cs EXCEPT ![w].sent = Append(@, id)]
      ELSE cs

\* ws.on('message') with a frame that carries a messageId (key k or NoKey)
ConsumerOnMessage(c, k) ==
    /\ kind = "consumer"
    /\ UNCHANGED registryVars
    /\ UNCHANGED <<adminVars, fnVars, extVars>>
    /\ c \in 1..Len(conns)
    /\ conns[c].state \in {"OPEN", "CLOSING"}
    /\ nextId <= MaxFrames
    /\ nextId' = nextId + 1
    /\ messages' = Unshift(messages, nextId)
    /\ messageCount' = messageCount + 1
    /\ LET hasActiveFilter == keyFilter # ""
           matchesFilter == hasActiveFilter /\ matchesKeyFilter(k)
           shouldHide == hasActiveFilter /\ ~matchesFilter
           stop == matchesFilter /\ autoStopOnMatch
           delivered == [conns EXCEPT ![c].recv = Append(@, nextId)]
           acked == acknowledgeMessage(delivered, ws, nextId)
       IN  /\ conns' = IF stop THEN closeWebSocket(acked, ws) ELSE acked
           /\ ws' = IF stop THEN 0 ELSE ws
           /\ autoStopped' = IF stop /\ panel THEN autoStopped + 1 ELSE autoStopped
           /\ lastPosts' = Post({"messageReceived", "status"}
                                 \cup (IF stop THEN {"autoStopped"} ELSE {}))
           /\ lastAct' = [FrameAct(c, "msg") EXCEPT
                             !.key = k, !.matches = matchesFilter, !.hide = shouldHide,
                             !.steps = <<"filter">>
                                       \o (IF panel THEN <<"emit">> ELSE <<>>)
                                       \o (IF acked # delivered THEN <<"ack">> ELSE <<>>)]
    /\ UNCHANGED <<kind, panel, htmlPartitions, topicName, partitionCount, selectedPartition,
                   lookups, nShows, isConnected, errorCount, subscription, keyFilter,
                   keyFilterMode, autoStopOnMatch, compiledKeyFilterRegex, rejected>>

\* ws.on('message') with a frame that carries no messageId:
\* {result:'ok'}, {errorMsg}, or text that is not JSON
ConsumerOnOtherFrame(c, f) ==
    /\ kind = "consumer"
    /\ UNCHANGED registryVars
    /\ UNCHANGED <<adminVars, fnVars, extVars>>
    /\ c \in 1..Len(conns)
    /\ conns[c].state \in {"OPEN", "CLOSING"}
    /\ lastPosts' = CASE f = "ok" -> Post({"status"})
                      [] f = "err" -> Post({"error", "status"})
                      [] OTHER -> {}
    /\ lastAct' = FrameAct(c, f)
    /\ UNCHANGED <<kind, panel, htmlPartitions, ws, conns, topicName, partitionCount,
                   selectedPartition, lookups, nShows, isConnected, messageCount, errorCount,
                   subscription, keyFilter, keyFilterMode, autoStopOnMatch,
                   compiledKeyFilterRegex, messages, nextId, rejected, autoStopped>>

\* ws.on('error'): the handshake failed, the transport broke, or close() was
\* called before the socket was open
ConsumerOnError(c) ==
    /\ kind = "consumer"
    /\ UNCHANGED registryVars
    /\ UNCHANGED <<adminVars, fnVars, extVars>>
    /\ c \in 1..Len(conns)
    /\ conns[c].state \in {"CONNECTING", "OPEN", "ABORTING"}
    /\ conns' = [conns EXCEPT ![c].state = "ERRORED"]
    /\ isConnected' = FALSE
    /\ lastAct' = Act("OnError")
    /\ lastPosts' = Post({"error", "status"})
    /\ UNCHANGED <<kind, panel, htmlPartitions, ws, topicName, partitionCount,
                   selectedPartition, lookups, nShows, messageCount, errorCount,
                   subscription, keyFilter, keyFilterMode, autoStopOnMatch,
                   compiledKeyFilterRegex, messages, nextId, rejected, autoStopped>>

\* The sockets after socket c emitted 'close'
ConsumerSocketClosed(cs, c) == [cs EXCEPT ![c].state = "CLOSED"]

\* ws.on('close'): the peer closed, the closing handshake ended, or an error preceded
ConsumerOnClose(c) ==
    /\ kind = "consumer"
    /\ UNCHANGED registryVars
    /\ UNCHANGED <<adminVars, fnVars, extVars>>
    /\ c \in 1..Len(conns)
    /\ conns[c].state \in {"OPEN", "CLOSING", "ERRORED"}
    /\ conns' = ConsumerSocketClosed(conns, c)
    /\ isConnected' = FALSE
    /\ lastAct' = Act("OnClose")
    /\ lastPosts' = Post({"disconnected", "status"})
    /\ UNCHANGED <<kind, panel, htmlPartitions, ws, topicName, partitionCount,
                   selectedPartition, lookups, nShows, messageCount, errorCount,
                   subscription, keyFilter, keyFilterMode, autoStopOnMatch,
                   compiledKeyFilterRegex, messages, nextId, rejected, autoStopped>>

\* ----------------------------------------------------------------- producer
ProducerInit ==
    /\ kind = "producer"
    /\ panel = FALSE /\ htmlPartitions = 0
    /\ ws = 0 /\ conns = <<>>
    /\ topicName = "" /\ partitionCount = 0 /\ selectedPartition = 0
    /\ lookups = <<>> /\ nShows = 0
    /\ isConnected = FALSE /\ messageCount = 0 /\ errorCount = 0
    /\ subscription = "" /\ keyFilter = "" /\ keyFilterMode = "exact"
    /\ autoStopOnMatch = FALSE /\ compiledKeyFilterRegex = ""
    /\ messages = <<>> /\ nextId = 1 /\ rejected = {} /\ autoStopped = 0
    /\ lastAct = Act("Init") /\ lastPosts = {}
    /\ RegistryIdle
    /\ AdminIdle /\ FnIdle /\ ExtIdle

\* Fields of the consumer only, which no producer action touches
consumerOnly == <<subscription, keyFilter, keyFilterMode, autoStopOnMatch,
                  compiledKeyFilterRegex, messages, autoStopped>>

\* topicPath of connectWebSocket(): the partition suffix, or NoPartition for the bare topic
ProducerTopicPath(count, selected) ==
    IF count > 0 /\ selected >= 0 THEN selected ELSE NoPartition

\* connectWebSocket() of the producer on sockets cs: the sockets afterwards.
\* known: getClusterConnection(clusterName) is defined
ProducerConnectWebSocket(cs, count, selected, known) ==
    IF known THEN Append(cs, NewConn(topicName, ProducerTopicPath(count, selected))) ELSE cs

\* show(), up to the await of getTopicMetadata
ProducerShowStart(t) ==
    /\ kind = "producer"
    /\ UNCHANGED registryVars
    /\ UNCHANGED <<adminVars, fnVars, extVars>>
    /\ nShows < MaxOpens
    /\ nShows' = nShows + 1
    /\ topicName' = t
    /\ messageCount' = 0 /\ errorCount' = 0 /\ isConnected' = FALSE
    /\ partitionCount' = 0
    /\ selectedPartition' = 0
    /\ lookups' = Append(lookups, t)
    /\ lastAct' = Act("ShowStart") /\ lastPosts' = {}
    /\ UNCHANGED <<kind, panel, htmlPartitions, ws, conns, nextId, rejected, consumerOnly>>

\* show(), from the return of getTopicMetadata (ok: it resolved) to the end,
\* connectWebSocket() included
ProducerShowResume(i, ok, known) ==
    /\ kind = "producer"
    /\ UNCHANGED registryVars
    /\ UNCHANGED <<adminVars, fnVars, extVars>>
    /\ i \in 1..Len(lookups)
    /\ Len(conns) < MaxConns
    /\ partitionCount' = IF ok THEN TopicPartitions(lookups[i]) ELSE 0
    /\ lookups' = Remove(lookups, i)
    /\ panel' = TRUE
    /\ htmlPartitions' = partitionCount'
    /\ conns' = ProducerConnectWebSocket(closeWebSocket(conns, ws), partitionCount',
                                         selectedPartition, known)
    /\ ws' = IF known THEN Len(conns) + 1 ELSE 0
    /\ lastAct' = Act("ShowResume")
    /\ lastPosts' = IF known THEN {} ELSE {"error"}
    /\ UNCHANGED <<kind, topicName, selectedPartition, nShows, isConnected, messageCount,
                   errorCount, nextId, rejected, consumerOnly>>

\* command 'reconnect' -> connectWebSocket()
ProducerReconnect(known) ==
    /\ kind = "producer"
    /\ UNCHANGED registryVars
    /\ UNCHANGED <<adminVars, fnVars, extVars>>
    /\ panel
    /\ ~isConnected            \* the page shows the Reconnect button only while Disconnected
    /\ Len(conns) < MaxConns
    /\ conns' = ProducerConnectWebSocket(conns, partitionCount, selectedPartition, known)
    /\ ws' = IF known THEN Len(conns) + 1 ELSE ws
    /\ lastAct' = Act("Reconnect")
    /\ lastPosts' = IF known THEN {} ELSE Post({"error"})
    /\ UNCHANGED <<kind, panel, htmlPartitions, topicName, partitionCount, selectedPartition,
                   lookups, nShows, isConnected, messageCount, errorCount, nextId, rejected,
                   consumerOnly>>

\* command 'selectPartition' (p: the option chosen in the page's partition <select>)
ProducerSelectPartition(p, known) ==
    /\ kind = "producer"
    /\ UNCHANGED registryVars
    /\ UNCHANGED <<adminVars, fnVars, extVars>>
    /\ panel
    /\ htmlPartitions > 0 /\ p \in 0..(htmlPartitions - 1)
    /\ Len(conns) < MaxConns
    /\ selectedPartition' = p
    /\ conns' = ProducerConnectWebSocket(closeWebSocket(conns, ws), partitionCount, p, known)
    /\ ws' = IF known THEN Len(conns) + 1 ELSE 0
    /\ lastAct' = Act("SelectPartition")
    /\ lastPosts' = IF known THEN {} ELSE Post({"error"})
    /\ UNCHANGED <<kind, panel, htmlPartitions, topicName, partitionCount, lookups, nShows,
                   isConnected, messageCount, errorCount, nextId, rejected, consumerOnly>>

\* A sendMessage() that only checks that this.ws is defined
CanSendUnchecked(cs, w) == w # 0

\* The check of sendMessage(): this.ws is defined and its readyState is OPEN
CanSend(cs, w) == w # 0 /\ cs[w].state = "OPEN"

\* command 'send' -> sendMessage(payload, key, properties); the frame is named by its id
ProducerSend ==
    /\ kind = "producer"
    /\ UNCHANGED registryVars
    /\ UNCHANGED <<adminVars, fnVars, extVars>>
    /\ panel
    /\ nextId <= MaxFrames
    /\ nextId' = nextId + 1
    /\ IF CanSend(conns, ws)
         THEN /\ conns' = [conns EXCEPT ![ws].sent = Append(@, nextId)]
              /\ lastPosts' = {}
              /\ UNCHANGED rejected
         ELSE /\ rejected' = rejected \cup {nextId}
              /\ lastPosts' = Post({"error"})
              /\ UNCHANGED conns
    /\ lastAct' = [Act("Send") EXCEPT !.frame = IF CanSend(conns, ws) THEN "sent" ELSE "refused"]
    /\ UNCHANGED <<kind, panel, htmlPartitions, ws, topicName, partitionCount,
                   selectedPartition, lookups, nShows, isConnected, messageCount, errorCount,
                   consumerOnly>>

\* panel.onDidDispose
ProducerDispose ==
    /\ kind = "producer"
    /\ UNCHANGED registryVars
    /\ UNCHANGED <<adminVars, fnVars, extVars>>
    /\ panel
    /\ conns' = closeWebSocket(conns, ws)
    /\ ws' = 0
    /\ panel' = FALSE
    /\ lastAct' = Act("Dispose") /\ lastPosts' = {}
    /\ UNCHANGED <<kind, htmlPartitions, topicName, partitionCount, selectedPartition,
                   lookups, nShows, isConnected, messageCount, errorCount, nextId, rejected,
                   consumerOnly>>

\* ---- transport events of the producer's sockets

\* ws.on('open')
ProducerOnOpen(c) ==
    /\ kind = "producer"
    /\ UNCHANGED registryVars
    /\ UNCHANGED <<adminVars, fnVars, extVars>>
    /\ c \in 1..Len(conns)
    /\ conns[c].state = "CONNECTING"
    /\ conns' = [conns EXCEPT ![c].state = "OPEN"]
    /\ isConnected' = TRUE
    /\ lastAct' = Act("OnOpen")
    /\ lastPosts' = Post({"connected", "status"})
    /\ UNCHANGED <<kind, panel, htmlPartitions, ws, topicName, partitionCount,
                   selectedPartition, lookups, nShows, messageCount, errorCount, nextId,
                   rejected, consumerOnly>>

\* Counters after a frame that is counted as sent and as an error at once
ProducerCountBoth(f, sent, errors) == <<sent + 1, errors + 1>>

\* The counters <<messageCount, errorCount>> after a frame of kind f:
\* "ok" is {result:'ok'}, "err" any other JSON, "garbage" text JSON.parse rejects
ProducerCount(f, sent, errors) ==
    CASE f = "ok" -> <<sent + 1, errors>>
      [] f = "err" -> <<sent, errors + 1>>
      [] OTHER -> <<sent, errors>>

\* ws.on('message'): the broker's answer to the oldest unanswered send of socket c
ProducerOnMessage(c, f) ==
    /\ kind = "producer"
    /\ UNCHANGED registryVars
    /\ UNCHANGED <<adminVars, fnVars, extVars>>
    /\ c \in 1..Len(conns)
    /\ conns[c].state \in {"OPEN", "CLOSING"}
    /\ Len(conns[c].recv) < Len(conns[c].sent)
    /\ conns' = [conns EXCEPT ![c].recv = Append(@, conns[c].sent[Len(@) + 1])]
    /\ messageCount' = ProducerCount(f, messageCount, errorCount)[1]
    /\ errorCount' = ProducerCount(f, messageCount, errorCount)[2]
    /\ lastPosts' = CASE f = "ok" -> Post({"messageSent", "status"})
                      [] f = "err" -> Post({"error", "status"})
                      [] OTHER -> {}
    /\ lastAct' = FrameAct(c, f)
    /\ UNCHANGED <<kind, panel, htmlPartitions, ws, topicName, partitionCount,
                   selectedPartition, lookups, nShows, isConnected, nextId, rejected,
                   consumerOnly>>

\* ws.on('error')
ProducerOnError(c) ==
    /\ kind = "producer"
    /\ UNCHANGED registryVars
    /\ UNCHANGED <<adminVars, fnVars, extVars>>
    /\ c \in 1..Len(conns)
    /\ conns[c].state \in {"CONNECTING", "OPEN", "ABORTING"}
    /\ conns' = [conns EXCEPT ![c].state = "ERRORED"]
    /\ isConnected' = FALSE
    /\ errorCount' = errorCount + 1
    /\ lastAct' = Act("OnError")
    /\ lastPosts' = Post({"error", "status"})
    /\ UNCHANGED <<kind, panel, htmlPartitions, ws, topicName, partitionCount,
                   selectedPartition, lookups, nShows, messageCount, nextId, rejected,
                   consumerOnly>>

\* A close handler that dials again
ProducerSocketRedialed(cs, c) ==
    Append([cs EXCEPT ![c].state = "CLOSED"], NewConn(topicName, cs[c].partition))

\* The sockets after socket c emitted 'close'
ProducerSocketClosed(cs, c) == [cs EXCEPT ![c].state = "CLOSED"]

\* ws.on('close')
ProducerOnClose(c) ==
    /\ kind = "producer"
    /\ UNCHANGED registryVars
    /\ UNCHANGED <<adminVars, fnVars, extVars>>
    /\ c \in 1..Len(conns)
    /\ conns[c].state \in {"OPEN", "CLOSING", "ERRORED"}
    /\ conns' = ProducerSocketClosed(conns, c)
    /\ isConnected' = FALSE
    /\ lastAct' = Act("OnClose")
    /\ lastPosts' = Post({"disconnected", "status"})
    /\ UNCHANGED <<kind, panel, htmlPartitions, ws, topicName, partitionCount,
                   selectedPartition, lookups, nShows, messageCount, errorCount, nextId,
                   rejected, consumerOnly>>

\* ----------------------------------------------------- PulsarClientManager
SessionIdle ==
    /\ kind = "none"
    /\ panel = FALSE /\ htmlPartitions = 0
    /\ ws = 0 /\ conns = <<>>
    /\ topicName = "" /\ partitionCount = 0 /\ selectedPartition = 0
    /\ lookups = <<>> /\ nShows = 0
    /\ isConnected = FALSE /\ messageCount = 0 /\ errorCount = 0
    /\ subscription = "" /\ keyFilter = "" /\ keyFilterMode = "exact"
    /\ autoStopOnMatch = FALSE /\ compiledKeyFilterRegex = ""
    /\ messages = <<>> /\ nextId = 1 /\ rejected = {} /\ autoStopped = 0
    /\ lastAct = Act("Init") /\ lastPosts = {}

RegistryInit == SessionIdle /\ RegistryIdle /\ AdminIdle /\ FnIdle /\ ExtIdle

\* The connections the add command is given: one name offered with two URLs,
\* one connection with a stored token
NoToken == "(undefined)"
Tokens == {"tk1", "tk2"}
Connections ==
    { [name |-> "c1", url |-> "u1", authMethod |-> "none", authToken |-> NoToken],
      [name |-> "c1", url |-> "u2", authMethod |-> "token", authToken |-> "tk1"],
      [name |-> "c2", url |-> "u1", authMethod |-> "none", authToken |-> NoToken] }

\* A call of addCluster or removeCluster.  pc is where the call is suspended;
\* hc, lc, lt are what its health check, list-clusters and list-tenants
\* requests ended with (-1: not requested); snapshot is the value its
\* saveConfiguration() handed to config.update; before is the names that had
\* credentials when the command that makes the call started.
NewCall(op, conn, pc) ==
    [op |-> op, conn |-> conn, pc |-> pc, hc |-> -1, lc |-> -1, lt |-> -1,
     result |-> "", error |-> <<>>, snapshot |-> <<>>, before |-> secrets]

\* A saveConfiguration() that writes the connections as they are held
clustersSavedWhole(m) == [n \in DOMAIN m |-> m[n]]

\* What saveConfiguration() writes for the map m: every entry without its token
clustersToSave(m) ==
    [n \in DOMAIN m |-> [name |-> m[n].name, url |-> m[n].url, authMethod |-> m[n].authMethod]]

\* this.clusters.set(connection.name, {connection, adminClient})
ClustersSet(m, conn) ==
    [n \in DOMAIN m \cup {conn.name} |-> IF n = conn.name THEN conn ELSE m[n]]

\* A removeCluster that leaves the map as it is
ClustersKept(m, name) == m

\* this.clusters.delete(clusterName)
ClustersDelete(m, name) == [n \in DOMAIN m \ {name} |-> m[n]]

\* The tail of addCluster once connected: clusters.set, then saveConfiguration()
\* up to the await of config.update; call i is left suspended on the write.
Register(i, k) ==
    /\ clusters' = ClustersSet(clusters, k.conn)
    /\ calls' = [calls EXCEPT ![i] = [k EXCEPT !.pc = "saving",
                                               !.snapshot = clustersToSave(clusters')]]

\* error.message of the error request() throws for outcome out
CauseMessage(out) ==
    CASE out = NetworkError -> "fetch failed"
      [] out = Timeout -> "Request timeout after ms"
      [] out = 401 -> "HTTP 401"
      [] out = 403 -> "HTTP 403"
      [] OTHER -> "HTTP 500"

\* new Error(`Failed to connect to cluster "${name}": ${message}`)
ConnectError(name, out) == <<"Failed to connect to cluster", name, CauseMessage(out)>>

\* A probe that tolerates every failure of list-tenants
AnyFailureAccepted(status) == TRUE

\* A probe that tolerates 403 only
ForbiddenOnly(status) == status = 403

\* error.status === 401 || 403 (or statusCode): the account reaches the cluster
\* with limited permissions
LimitedPermissions(status) == status \in {401, 403}

\* A probe that goes on to the next endpoint whatever the last one answered
connectedNever(out) == FALSE

\* `connected` after healthCheck() or getClusters(): the next endpoint is tried
\* only while it is false
connected(out) == out = 200

\* addCluster(connection), up to its first await
AddCluster(conn) ==
    /\ kind = "none"
    /\ Len(calls) < MaxCalls
    /\ calls' = Append(calls, NewCall("add", conn,
                                      IF conn.authMethod = "token" THEN "getToken" ELSE "health"))
    /\ regAct' = <<"AddCluster", Len(calls) + 1>>
    /\ UNCHANGED <<clusters, persisted, secrets, warned>>
    /\ UNCHANGED resolved
    /\ UNCHANGED sessionVars
    /\ UNCHANGED <<adminVars, fnVars, extVars>>

\* credentialManager.getAuthToken(name) returned; healthCheck() is requested
AddGotToken(i) ==
    /\ i \in 1..Len(calls)
    /\ calls[i].op = "add" /\ calls[i].pc = "getToken"
    /\ calls' = [calls EXCEPT ![i].pc = "health"]
    /\ regAct' = <<"AddGotToken", i>>
    /\ UNCHANGED <<clusters, persisted, secrets, warned>>
    /\ UNCHANGED resolved
    /\ UNCHANGED sessionVars
    /\ UNCHANGED <<adminVars, fnVars, extVars>>

\* healthCheck() returned (200: true, anything else: false)
AddHealthChecked(i, out) ==
    /\ i \in 1..Len(calls)
    /\ calls[i].op = "add" /\ calls[i].pc = "health"
    /\ LET k == [calls[i] EXCEPT !.hc = out]
       IN  IF connected(out)
             THEN Register(i, k)
             ELSE /\ calls' = [calls EXCEPT ![i] = [k EXCEPT !.pc = "clusters"]]
                  /\ UNCHANGED clusters
    /\ regAct' = <<"AddHealthChecked", i>>
    /\ UNCHANGED <<persisted, secrets, warned>>
    /\ UNCHANGED resolved
    /\ UNCHANGED sessionVars
    /\ UNCHANGED <<adminVars, fnVars, extVars>>

\* adminClient.getClusters() returned or threw
AddListedClusters(i, out) ==
    /\ i \in 1..Len(calls)
    /\ calls[i].op = "add" /\ calls[i].pc = "clusters"
    /\ LET k == [calls[i] EXCEPT !.lc = out]
       IN  IF connected(out)
             THEN Register(i, k)
             ELSE /\ calls' = [calls EXCEPT ![i] = [k EXCEPT !.pc = "tenants"]]
                  /\ UNCHANGED clusters
    /\ regAct' = <<"AddListedClusters", i>>
    /\ UNCHANGED <<persisted, secrets, warned>>
    /\ UNCHANGED resolved
    /\ UNCHANGED sessionVars
    /\ UNCHANGED <<adminVars, fnVars, extVars>>

\* adminClient.getTenants() returned or threw
AddListedTenants(i, out) ==
    /\ i \in 1..Len(calls)
    /\ calls[i].op = "add" /\ calls[i].pc = "tenants"
    /\ LET k == [calls[i] EXCEPT !.lt = out]
       IN  IF out = 200
             THEN Register(i, k) /\ UNCHANGED warned
             ELSE IF LimitedPermissions(out)
               THEN Register(i, k) /\ warned' = warned \cup {k.conn.name}
               ELSE /\ calls' = [calls EXCEPT ![i] = [k EXCEPT !.pc = "done", !.result = "failed",
                                                               !.error = ConnectError(k.conn.name, out)]]
                    /\ UNCHANGED <<clusters, warned>>
    /\ regAct' = <<"AddListedTenants", i>>
    /\ UNCHANGED <<persisted, secrets>>
    /\ UNCHANGED resolved
    /\ UNCHANGED sessionVars
    /\ UNCHANGED <<adminVars, fnVars, extVars>>

\* config.update('clusters', snapshot) of call i completed; the call returns
\* (the configuration store is taken to accept the write; writes of
\* overlapping calls may complete in either order)
SaveDone(i) ==
    /\ i \in 1..Len(calls)
    /\ calls[i].pc = "saving"
    /\ persisted' = calls[i].snapshot
    /\ calls' = [calls EXCEPT ![i].pc = "done", ![i].result = "ok"]
    /\ regAct' = <<"SaveDone", i>>
    /\ UNCHANGED <<clusters, secrets, warned>>
    /\ UNCHANGED resolved
    /\ UNCHANGED sessionVars
    /\ UNCHANGED <<adminVars, fnVars, extVars>>

\* removeCluster(name), up to the await of deleteCredentials
RemoveCluster(name) ==
    /\ kind = "none"
    /\ Len(calls) < MaxCalls
    /\ clusters' = ClustersDelete(clusters, name)
    /\ calls' = Append(calls, NewCall("remove", [name |-> name, url |-> "", authMethod |-> "",
                                                 authToken |-> NoToken],
                                      "deleteCredentials"))
    /\ regAct' = <<"RemoveCluster", Len(calls) + 1>>
    /\ UNCHANGED <<persisted, secrets, warned>>
    /\ UNCHANGED resolved
    /\ UNCHANGED sessionVars
    /\ UNCHANGED <<adminVars, fnVars, extVars>>

\* credentialManager.deleteCredentials(name) returned (ok) or threw
RemoveDeletedCredentials(i, ok) ==
    /\ i \in 1..Len(calls)
    /\ calls[i].op = "remove" /\ calls[i].pc = "deleteCredentials"
    /\ IF ok
         THEN /\ secrets' = secrets \ {calls[i].conn.name}
              /\ calls' = [calls EXCEPT ![i].pc = "saving",
                                        ![i].snapshot = clustersToSave(clusters)]
         ELSE /\ calls' = [calls EXCEPT ![i].pc = "done", ![i].result = "failed",
                                        ![i].error = <<"Failed to delete credentials">>]
              /\ UNCHANGED secrets
    /\ regAct' = <<"RemoveDeletedCredentials", i>>
    /\ UNCHANGED <<clusters, persisted, warned>>
    /\ UNCHANGED resolved
    /\ UNCHANGED sessionVars
    /\ UNCHANGED <<adminVars, fnVars, extVars>>

\* credentialManager.storeAuthToken(name, token), which the add command calls
\* before addCluster when the connection authenticates with a token
StoreAuthToken(conn) ==
    /\ kind = "none"
    /\ conn.authMethod = "token"
    /\ conn.name \notin secrets
    /\ secrets' = secrets \cup {conn.name}
    /\ regAct' = <<"StoreAuthToken", 0>>
    /\ UNCHANGED <<clusters, persisted, calls, warned>>
    /\ UNCHANGED resolved
    /\ UNCHANGED sessionVars
    /\ UNCHANGED <<adminVars, fnVars, extVars>>

\* The 'Add Cluster' command from the accepted prompts to the first await of
\* clientManager.addCluster: the name prompt refuses a registered name, and a
\* token is stored in the secret store before the connection is tried
AddCommand(conn) ==
    /\ kind = "none"
    /\ Len(calls) < MaxCalls
    /\ conn.name \notin DOMAIN clusters
    /\ secrets' = IF conn.authMethod = "token" THEN secrets \cup {conn.name} ELSE secrets
    /\ calls' = Append(calls, NewCall("add", conn,
                                      IF conn.authMethod = "token" THEN "getToken" ELSE "health"))
    /\ regAct' = <<"AddCommand", Len(calls) + 1>>
    /\ UNCHANGED <<clusters, persisted, warned>>
    /\ UNCHANGED resolved
    /\ UNCHANGED sessionVars
    /\ UNCHANGED <<adminVars, fnVars, extVars>>

\* Any operation of the manager addressed to a cluster (getTenants, getTopics,
\* deleteTopic, ...), up to its getAdminClient(name): throws 'Cluster not
\* found' before any request unless the name is registered
AdminOperation(name) ==
    /\ kind = "none"
    /\ resolved' = [name |-> name, found |-> name \in DOMAIN clusters]
    /\ regAct' = <<"AdminOperation", 0>>
    /\ UNCHANGED <<clusters, persisted, secrets, calls, warned>>
    /\ UNCHANGED sessionVars
    /\ UNCHANGED <<adminVars, fnVars, extVars>>

\* ---- activation
\* The token the secret store holds for a name that has one
StoredToken(name) == IF name = "c1" THEN "tk1" ELSE "tk2"

\* A configuration written by an earlier run of the extension
SavedConfig == ("c2" :> [name |-> "c2", url |-> "u1", authMethod |-> "token"])

StartupInit ==
    /\ SessionIdle
    /\ clusters = <<>> /\ calls = <<>> /\ warned = {} /\ regAct = <<"Init", 0>>
    /\ resolved = [name |-> "", found |-> FALSE]
    /\ persisted \in {<<>>, SavedConfig}
    /\ secrets \in {{}, {"c2"}}
    /\ AdminIdle /\ FnIdle /\ ExtIdle

\* loadConfiguration(), awaited by activate() before any command is registered
LoadConfiguration ==
    /\ kind = "none"
    /\ regAct = <<"Init", 0>>
    /\ clusters' = [n \in DOMAIN persisted |->
                      [name |-> persisted[n].name, url |-> persisted[n].url,
                       authMethod |-> persisted[n].authMethod,
                       authToken |-> IF persisted[n].authMethod = "token" /\ n \in secrets
                                       THEN StoredToken(n) ELSE NoToken]]
    /\ regAct' = <<"LoadConfiguration", 0>>
    /\ UNCHANGED <<persisted, secrets, calls, warned>>
    /\ UNCHANGED resolved
    /\ UNCHANGED sessionVars
    /\ UNCHANGED <<adminVars, fnVars, extVars>>

NextRegistry ==
    \/ \E conn \in Connections : AddCluster(conn)
    \/ \E i \in 1..MaxCalls : AddGotToken(i)
    \/ \E i \in 1..MaxCalls, out \in PassFail : AddHealthChecked(i, out)
    \/ \E i \in 1..MaxCalls, out \in PassFail : AddListedClusters(i, out)
    \/ \E i \in 1..MaxCalls, out \in ProbeOutcomes : AddListedTenants(i, out)
    \/ \E i \in 1..MaxCalls : SaveDone(i)
    \/ \E name \in Names : RemoveCluster(name)
    \/ \E i \in 1..MaxCalls, ok \in BOOLEAN : RemoveDeletedCredentials(i, ok)
    \/ \E conn \in Connections : StoreAuthToken(conn)

SpecRegistry == RegistryInit /\ [][NextRegistry]_vars

\* The registry from activation on, with the connections that carry a token
NextStartup ==
    \/ LoadConfiguration
    \/ \E conn \in {c \in Connections : c.authMethod = "token"} : AddCluster(conn)
    \/ \E i \in 1..MaxCalls : AddGotToken(i)
    \/ \E i \in 1..MaxCalls, out \in PassFail : AddHealthChecked(i, out)
    \/ \E i \in 1..MaxCalls, out \in PassFail : AddListedClusters(i, out)
    \/ \E i \in 1..MaxCalls, out \in ProbeOutcomes : AddListedTenants(i, out)
    \/ \E i \in 1..MaxCalls : SaveDone(i)
    \/ \E name \in Names : RemoveCluster(name)
    \/ \E i \in 1..MaxCalls, ok \in BOOLEAN : RemoveDeletedCredentials(i, ok)
    \/ \E conn \in Connections : StoreAuthToken(conn)

SpecStartup == StartupInit /\ [][NextStartup]_vars

\* Adding and removing the token connection, with operations addressed to the
\* clusters in between; the health check answers
NextRemove ==
    \/ \E conn \in {c \in Connections : c.authMethod = "token"} : AddCluster(conn)
    \/ \E i \in 1..MaxCalls : AddGotToken(i)
    \/ \E i \in 1..MaxCalls, out \in {200} : AddHealthChecked(i, out)
    \/ \E i \in 1..MaxCalls : SaveDone(i)
    \/ \E name \in Names : RemoveCluster(name)
    \/ \E i \in 1..MaxCalls, ok \in BOOLEAN : RemoveDeletedCredentials(i, ok)
    \/ \E conn \in Connections : StoreAuthToken(conn)
    \/ \E name \in Names : AdminOperation(name)

SpecRemove == RegistryInit /\ [][NextRemove]_vars

\* The 'Add Cluster' and 'Remove Cluster' commands
NextAddCommand ==
    \/ \E conn \in Connections : AddCommand(conn)
    \/ \E i \in 1..MaxCalls : AddGotToken(i)
    \/ \E i \in 1..MaxCalls, out \in PassFail : AddHealthChecked(i, out)
    \/ \E i \in 1..MaxCalls, out \in PassFail : AddListedClusters(i, out)
    \/ \E i \in 1..MaxCalls, out \in ProbeOutcomes : AddListedTenants(i, out)
    \/ \E i \in 1..MaxCalls : SaveDone(i)
    \/ \E name \in Names : RemoveCluster(name)
    \/ \E i \in 1..MaxCalls, ok \in BOOLEAN : RemoveDeletedCredentials(i, ok)

SpecAddCommand == RegistryInit /\ [][NextAddCommand]_vars

\* ------------------------------------------------------- PulsarAdminClient
\* error.status of an error that carries none
NoStatus == -1

\* What an operation holds after a request: undefined, or the parsed JSON body
\* (of which the operations read the partition count or the list of topics)
Undefined == [defined |-> FALSE, partitions |-> 0, topics |-> <<>>]
Json(n, ts) == [defined |-> TRUE, partitions |-> n, topics |-> ts]

\* What the server does with a request: a response (status, content type,
\* kind of body), no response at all (NetworkError), or none before the
\* request's timer fires (Timeout)
Responses ==
    {[status |-> 200, ctype |-> c, body |-> b] :
         c \in {"json", "text"}, b \in {"json", "empty", "garbage"}}
    \cup {[status |-> st, ctype |-> "text", body |-> "garbage"] : st \in {404, 500}}
    \cup {[status |-> st, ctype |-> "", body |-> ""] : st \in {NetworkError, Timeout}}

Success(v) == [ok |-> TRUE, status |-> NoStatus, message |-> "", value |-> v]
Failure(st, m) == [ok |-> FALSE, status |-> st, message |-> m, value |-> Undefined]

\* request(method, path) answered by r, json being what JSON.parse makes of a JSON body
request(r, json) ==
    IF r.status = NetworkError THEN Failure(NoStatus, "fetch failed")
    ELSE IF r.status = Timeout THEN Failure(NoStatus, "Request timeout after ms")
    ELSE IF r.status \notin 200..299 THEN Failure(r.status, "HTTP status: text")
    ELSE IF r.ctype # "json" THEN Success(Undefined)
    ELSE IF r.body = "empty" THEN Success(Undefined)
    ELSE IF r.body = "json" THEN Success(json)
    ELSE Failure(NoStatus, "SyntaxError")

\* The JSON bodies the server sends for an endpoint
Payload(ep) ==
    CASE ep = "partitions" -> {Json(0, <<>>), Json(2, <<>>)}
      [] ep = "persistent" -> {Json(0, <<>>), Json(0, <<"p1">>)}
      [] ep = "non-persistent" -> {Json(0, <<>>), Json(0, <<"n1">>)}
      [] OTHER -> {Json(0, <<>>)}

\* An operation is called: nothing requested yet but its first request ep
NewOperation(op, ep) ==
    [op |-> op, pc |-> ep, caught |-> FALSE, ok |-> TRUE, status |-> NoStatus,
     message |-> "", value |-> Undefined]

\* The operation returns or throws what res is
EndWith(res) ==
    [call EXCEPT !.pc = "done", !.ok = res.ok, !.status = res.status,
                 !.message = res.message, !.value = res.value]

\* The request in flight completes with res
Logged(r, res) == Append(log, [ep |-> call.pc, r |-> r, res |-> res])

\* ---- PulsarClientManager.deleteTopic
\* A deleteTopic whose catch rethrows
deleteTopicRethrows(pc, caught, res) ==
    IF caught \/ ~res.ok THEN [pc |-> "done", caught |-> caught]
    ELSE IF pc = "partitions"
      THEN IF ~res.value.defined THEN [pc |-> "done", caught |-> caught]
           ELSE IF res.value.partitions > 0 THEN [pc |-> "deletePartitioned", caught |-> FALSE]
           ELSE [pc |-> "delete", caught |-> FALSE]
    ELSE [pc |-> "done", caught |-> caught]

\* Where deleteTopic goes when the request pc ended with res; caught: the
\* request was made by the catch block.  A 2xx answer without a body makes
\* metadata.partitions throw a TypeError inside the try.
deleteTopicNext(pc, caught, res) ==
    IF caught THEN [pc |-> "done", caught |-> TRUE]
    ELSE IF ~res.ok THEN [pc |-> "delete", caught |-> TRUE]
    ELSE IF pc = "partitions"
      THEN IF ~res.value.defined THEN [pc |-> "delete", caught |-> TRUE]
           ELSE IF res.value.partitions > 0 THEN [pc |-> "deletePartitioned", caught |-> FALSE]
           ELSE [pc |-> "delete", caught |-> FALSE]
    ELSE [pc |-> "done", caught |-> FALSE]

\* deleteTopic(clusterName, topic, force) up to its first await
DeleteTopicCall ==
    /\ kind = "none"
    /\ call.pc = "done"
    /\ call' = NewOperation("deleteTopic", "partitions")
    /\ log' = <<>>
    /\ UNCHANGED <<extVars, fnVars, sessionVars, registryVars, timer>>

\* the request deleteTopic awaits is answered by r
DeleteTopicAnswered(r, json) ==
    /\ kind = "none"
    /\ call.op = "deleteTopic" /\ call.pc # "done"
    /\ json \in Payload(call.pc)
    /\ LET res == request(r, json)
           next == deleteTopicNext(call.pc, call.caught, res)
       IN  /\ log' = Logged(r, res)
           /\ call' = IF next.pc = "done"
                        THEN EndWith(res)
                        ELSE [call EXCEPT !.pc = next.pc, !.caught = next.caught]
    /\ UNCHANGED <<extVars, fnVars, sessionVars, registryVars, timer>>

\* ---- PulsarAdminClient.getSubscriptionStats
\* A getSubscriptionStats that falls back after any failure
StatsFallsBackAlways(res) == ~res.ok

\* error.status === 404 || error.statusCode === 404
StatsFallsBack(res) == ~res.ok /\ res.status = 404

\* stats.subscriptions[subscription]: a TypeError when stats is undefined
SubscriptionOf(res) ==
    IF res.ok /\ ~res.value.defined THEN Failure(NoStatus, "TypeError") ELSE res

\* getSubscriptionStats(topic, subscription) up to its first await
GetSubscriptionStatsCall ==
    /\ kind = "none"
    /\ call.pc = "done"
    /\ call' = NewOperation("getSubscriptionStats", "stats")
    /\ log' = <<>>
    /\ UNCHANGED <<extVars, fnVars, sessionVars, registryVars, timer>>

\* getTopicStats or getPartitionedTopicStats is answered by r
GetSubscriptionStatsAnswered(r, json) ==
    /\ kind = "none"
    /\ call.op = "getSubscriptionStats" /\ call.pc # "done"
    /\ json \in Payload(call.pc)
    /\ LET res == request(r, json)
       IN  /\ log' = Logged(r, res)
           /\ call' = IF call.pc = "stats" /\ StatsFallsBack(res)
                        THEN [call EXCEPT !.pc = "partitioned-stats"]
                        ELSE EndWith(SubscriptionOf(res))
    /\ UNCHANGED <<extVars, fnVars, sessionVars, registryVars, timer>>

\* ---- PulsarAdminClient.getTopics
\* await this.get(...).catch(() => []): what the listing variable holds
Listed(res) == IF res.ok THEN res.value ELSE Json(0, <<>>)

\* [...persistent, ...nonPersistent]: a TypeError when either is undefined
Spread(persistent, nonPersistent) ==
    IF persistent.defined /\ nonPersistent.defined
      THEN Success(Json(0, persistent.topics \o nonPersistent.topics))
      ELSE Failure(NoStatus, "TypeError")

\* getTopics(tenant, namespace) up to its first await
GetTopicsCall ==
    /\ kind = "none"
    /\ call.pc = "done"
    /\ call' = NewOperation("getTopics", "persistent")
    /\ log' = <<>>
    /\ UNCHANGED <<extVars, fnVars, sessionVars, registryVars, timer>>

\* the listing request getTopics awaits is answered by r; between the two
\* requests call.value holds the persistent listing
GetTopicsAnswered(r, json) ==
    /\ kind = "none"
    /\ call.op = "getTopics" /\ call.pc # "done"
    /\ json \in Payload(call.pc)
    /\ LET res == request(r, json)
       IN  /\ log' = Logged(r, res)
           /\ call' = IF call.pc = "persistent"
                        THEN [call EXCEPT !.pc = "non-persistent", !.value = Listed(res)]
                        ELSE EndWith(Spread(call.value, Listed(res)))
    /\ UNCHANGED <<extVars, fnVars, sessionVars, registryVars, timer>>

NextAdmin ==
    \/ DeleteTopicCall
    \/ \E r \in Responses, json \in UNION {Payload(ep) : ep \in {"partitions", "delete"}} :
          DeleteTopicAnswered(r, json)
    \/ GetSubscriptionStatsCall
    \/ \E r \in Responses, json \in Payload("stats") : GetSubscriptionStatsAnswered(r, json)
    \/ GetTopicsCall
    \/ \E r \in Responses, json \in Payload("persistent") \cup Payload("non-persistent") :
          GetTopicsAnswered(r, json)

SpecAdmin == RegistryInit /\ [][NextAdmin]_vars

\* ---- request() and healthCheck() step by step, against the clock

\* The responses whose headers reach the client
Answers == {r \in Responses : r.status \notin {NetworkError, Timeout}}

\* The response the call in progress received
Received == log[Len(log)].r

\* request() begins: the abort timer is set, then fetch is awaited
RequestCall ==
    /\ call.pc = "done"
    /\ Len(log) < MaxCalls
    /\ call' = NewOperation("request", "fetch")
    /\ timer' = [armed |-> TRUE, elapsed |-> FALSE]
    /\ UNCHANGED <<extVars, fnVars, sessionVars, registryVars, log>>

\* healthCheck() begins: fetch is awaited with no signal and no timer
HealthCheckCall ==
    /\ call.pc = "done"
    /\ Len(log) < MaxCalls
    /\ call' = NewOperation("healthCheck", "fetch")
    /\ timer' = [armed |-> FALSE, elapsed |-> FALSE]
    /\ UNCHANGED <<extVars, fnVars, sessionVars, registryVars, log>>

\* fetch resolves with the headers of r. request() clears the timer and goes
\* on to read the body where it needs it; healthCheck() returns response.ok
FetchResolved(r) ==
    /\ call.pc = "fetch"
    /\ log' = Logged(r, Success(Undefined))
    /\ IF call.op = "healthCheck"
       THEN /\ call' = EndWith([Success(Undefined) EXCEPT !.ok = r.status \in 200..299])
            /\ UNCHANGED timer
       ELSE /\ timer' = [timer EXCEPT !.armed = FALSE]
            /\ call' = IF r.status \notin 200..299
                          THEN [call EXCEPT !.pc = "errorText"]
                       ELSE IF r.ctype # "json" THEN EndWith(Success(Undefined))
                       ELSE [call EXCEPT !.pc = "text"]
    /\ UNCHANGED <<extVars, fnVars, sessionVars, registryVars>>

\* fetch rejects: request() clears the timer and rethrows, healthCheck()
\* returns false
FetchRejected ==
    /\ call.pc = "fetch"
    /\ call' = EndWith(Failure(NoStatus, "fetch failed"))
    /\ timer' = [timer EXCEPT !.armed = FALSE]
    /\ UNCHANGED <<extVars, fnVars, sessionVars, registryVars, log>>

\* response.text() resolves with the whole body
BodyRead ==
    /\ call.pc \in {"text", "errorText"}
    /\ call' = EndWith(request(Received, Json(0, <<>>)))
    /\ UNCHANGED <<extVars, fnVars, sessionVars, registryVars, log, timer>>

\* response.text() rejects: the error text becomes 'Unknown error', the body
\* of a 2xx response is an error the catch block rethrows
BodyFailed ==
    /\ call.pc \in {"text", "errorText"}
    /\ call' = EndWith(IF call.pc = "errorText"
                          THEN Failure(Received.status, "HTTP status: Unknown error")
                          ELSE Failure(NoStatus, "fetch failed"))
    /\ UNCHANGED <<extVars, fnVars, sessionVars, registryVars, log, timer>>

\* requestTimeout ms have passed since the call began. A pending timer fires
\* and aborts the fetch, which request() reports as a timeout; with no timer
\* pending nothing happens to the call
TimeoutElapsed ==
    /\ call.op \in {"request", "healthCheck"}
    /\ ~timer.elapsed
    /\ timer' = [armed |-> FALSE, elapsed |-> TRUE]
    /\ call' = IF timer.armed
                  THEN EndWith(Failure(NoStatus, "Request timeout after ms"))
                  ELSE call
    /\ UNCHANGED <<extVars, fnVars, sessionVars, registryVars, log>>

NextRequest ==
    \/ RequestCall
    \/ HealthCheckCall
    \/ \E r \in Answers : FetchResolved(r)
    \/ FetchRejected
    \/ BodyRead
    \/ BodyFailed
    \/ TimeoutElapsed

SpecRequest == RegistryInit /\ [][NextRequest]_vars

\* ------------------------------------------------------------ topic addresses
\* A string is a sequence of characters; "persistent:" and "non-persistent:"
\* stand for those eleven and fifteen characters, "a" for a character that
\* needs no escaping, "#" for one that does, "\n" for a line terminator.
MaxLen == 5
Schemes == {"persistent:", "non-persistent:"}
Chars == {"/", "a", "#", "\n"}

RECURSIVE Strings(_)
Strings(n) ==
    IF n = 0 THEN {<<>>}
    ELSE LET shorter == Strings(n - 1)
         IN  shorter \cup {Append(x, c) : x \in {y \in shorter : Len(y) = n - 1}, c \in Chars}

\* The addresses given to the admin client: with a scheme and '//' or without
Addresses ==
    {prefix \o body : prefix \in {<<>>} \cup {<<m, "/", "/">> : m \in Schemes},
                      body \in Strings(MaxLen)}

SlashAt(x) == {i \in 1..Len(x) : x[i] = "/"}
\* the first '/' of x at or after position i, 0 when there is none
FirstSlashFrom(x, i) ==
    IF \E j \in SlashAt(x) : j >= i
      THEN CHOOSE j \in SlashAt(x) : j >= i /\ \A k \in SlashAt(x) : k >= i => j <= k
      ELSE 0

\* parseTopic that captures the components and takes every topic for persistent
parseTopicPersistentOnly(x) ==
    LET i1 == FirstSlashFrom(x, 4)
        i2 == IF i1 = 0 THEN 0 ELSE FirstSlashFrom(x, i1 + 1)
    IN  IF Len(x) >= 3 /\ x[1] \in Schemes /\ i1 > 4 /\ i2 > i1 + 1 /\ Len(x) > i2
          THEN [persistent |-> TRUE, tenant |-> SubSeq(x, 4, i1 - 1),
                namespace |-> SubSeq(x, i1 + 1, i2 - 1),
                topicName |-> SubSeq(x, i2 + 1, Len(x)), form |-> 1]
          ELSE [persistent |-> TRUE, tenant |-> <<"public">>, namespace |-> <<"default">>,
                topicName |-> x, form |-> 3]

\* parseTopic that takes every input for a bare topic name
parseTopicBare(x) ==
    [persistent |-> TRUE, tenant |-> <<"public">>, namespace |-> <<"default">>,
     topicName |-> x, form |-> 3]

\* topic.match(/^(persistent|non-persistent):\/\/([^/]+)\/([^/]+)\/(.+)$/), then
\* topic.split('/') with three parts, then the bare name. form: the return
\* statement taken
parseTopic(x) ==
    LET i1 == FirstSlashFrom(x, 4)
        i2 == IF i1 = 0 THEN 0 ELSE FirstSlashFrom(x, i1 + 1)
        match == /\ Len(x) >= 3 /\ x[1] \in Schemes /\ x[2] = "/" /\ x[3] = "/"
                 /\ i1 > 4 /\ i2 > i1 + 1 /\ Len(x) > i2
                 /\ \A j \in (i2 + 1)..Len(x) : x[j] # "\n"
        s1 == FirstSlashFrom(x, 1)
        s2 == FirstSlashFrom(x, s1 + 1)
    IN  IF match
          THEN [persistent |-> x[1] = "persistent:", tenant |-> SubSeq(x, 4, i1 - 1),
                namespace |-> SubSeq(x, i1 + 1, i2 - 1),
                topicName |-> SubSeq(x, i2 + 1, Len(x)), form |-> 1]
        ELSE IF Cardinality(SlashAt(x)) = 2
          THEN [persistent |-> TRUE, tenant |-> SubSeq(x, 1, s1 - 1),
                namespace |-> SubSeq(x, s1 + 1, s2 - 1),
                topicName |-> SubSeq(x, s2 + 1, Len(x)), form |-> 2]
        ELSE [persistent |-> TRUE, tenant |-> <<"public">>, namespace |-> <<"default">>,
              topicName |-> x, form |-> 3]

\* `${domain}://${tenant}/${namespace}/${topicName}`
Format(p) ==
    <<IF p.persistent THEN "persistent:" ELSE "non-persistent:", "/", "/">>
        \o p.tenant \o <<"/">> \o p.namespace \o <<"/">> \o p.topicName

\* encodeURIComponent, character by character
EscapeChar(c) ==
    CASE c = "/" -> "%2F"
      [] c = "#" -> "%23"
      [] c = "\n" -> "%0A"
      [] c = "persistent:" -> "persistent%3A"
      [] c = "non-persistent:" -> "non-persistent%3A"
      [] OTHER -> c
encodeURIComponent(x) == [i \in 1..Len(x) |-> EscapeChar(x[i])]

\* The operations that take a topic address, and those that take a tenant
\* and a namespace
TopicOperations == {"getTopicMetadata", "getTopicStats", "createTopic", "deleteTopic",
                    "getSubscriptions"}
NamespaceOperations == {"getNamespacePolicies", "createNamespace", "getTopics"}

\* An operation on a topic address: the address is parsed and the parts are
\* put into the path as they are
TopicOperation(op) ==
    /\ path = NoPath
    /\ parsed' = parseTopic(topic)
    /\ path' = [op |-> op, tenant |-> parsed'.tenant, namespace |-> parsed'.namespace,
                topicName |-> parsed'.topicName]
    /\ UNCHANGED <<extVars, sessionVars, registryVars, adminVars, topic, listing, shown>>

\* An operation on the tenant and the namespace an address named
NamespaceOperation(op) ==
    /\ path # NoPath /\ path.op \in TopicOperations
    /\ path' = [op |-> op, tenant |-> encodeURIComponent(parsed.tenant),
                namespace |-> encodeURIComponent(parsed.namespace), topicName |-> <<>>]
    /\ UNCHANGED <<extVars, sessionVars, registryVars, adminVars, topic, parsed, listing, shown>>

ParseInit ==
    /\ SessionIdle /\ RegistryIdle /\ AdminIdle /\ ExtIdle
    /\ topic \in Addresses
    /\ parsed = NotParsed /\ path = NoPath /\ listing = <<>> /\ shown = <<>>

NextParse ==
    \/ \E op \in TopicOperations : TopicOperation(op)
    \/ \E op \in NamespaceOperations : NamespaceOperation(op)

SpecParse == ParseInit /\ [][NextParse]_vars

\* ------------------------------------------------------- explorer: topics
\* A listed topic: its domain, and its name as a base followed or not by
\* '-partition-N' (partition = NoPartition: no such suffix)
MaxListed == 3
BaseNames == {"orders", "widgets"}
ListedTopics ==
    [persistent : BOOLEAN, base : BaseNames, partition : {NoPartition, 0, 1}]
    \ [persistent : BOOLEAN, base : {"widgets"}, partition : 0..1]

RECURSIVE Lists(_, _)
Lists(S, n) ==
    IF n = 0 THEN {<<>>}
    ELSE LET shorter == Lists(S, n - 1)
         IN  shorter \cup {Append(x, e) : x \in {y \in shorter : Len(y) = n - 1}, e \in S}

\* What the broker answers for a namespace: the topics, partitions included,
\* and the partitioned topics of the persistent domain, which it lists for
\* every persistent partition it has
Listings ==
    {l \in [topics : Lists(ListedTopics, MaxListed), partitionedTopics : SUBSET BaseNames] :
        \A i \in 1..Len(l.topics) :
            l.topics[i].persistent /\ l.topics[i].partition # NoPartition
                => l.topics[i].base \in l.partitionedTopics}

\* topicName.match(/^(.+)-partition-\d+$/)
partitionMatch(t) == t.partition # NoPartition

\* getTopicNodes: the TopicNodes returned, as name and partition count
getTopicNodes(l) ==
    LET indices == 1..Len(l.topics)
        topicPartitions(n) ==
            Cardinality({i \in indices : partitionMatch(l.topics[i]) /\ l.topics[i].base = n})
        uniqueTopics ==
            {l.topics[i].base : i \in {j \in indices : ~partitionMatch(l.topics[j])}}
                \cup l.partitionedTopics
    IN  {[name |-> n, partitions |-> topicPartitions(n)] : n \in uniqueTopics}

\* The explorer expands a namespace
GetTopicNodes ==
    /\ shown = <<>>
    /\ shown' = [nodes |-> getTopicNodes(listing)]
    /\ UNCHANGED <<extVars, sessionVars, registryVars, adminVars, topic, parsed, path, listing>>

TopicNodesInit ==
    /\ SessionIdle /\ RegistryIdle /\ AdminIdle /\ ExtIdle
    /\ topic = <<>> /\ parsed = NotParsed /\ path = NoPath
    /\ listing \in Listings /\ shown = <<>>

NextTopicNodes == GetTopicNodes

SpecTopicNodes == TopicNodesInit /\ [][NextTopicNodes]_vars

\* ------------------------------------------- manual namespaces (the overlay)
\* tenant/namespace pairs, as the broker holds them and as the
\* 'manualNamespaces' setting lists them for the cluster
Pairs == {<<"t1", "n1">>, <<"t1", "n2">>, <<"t2", "n1">>}
TenantsOf(ps) == {p[1] : p \in ps}
NamespacesOf(ps, t) == {p[2] : p \in {q \in ps : q[1] = t}}

\* api: the namespaces of the broker; tenants, namespaces: the status the
\* tenant listing and the namespace listings are answered with
Overlays ==
    [api : SUBSET Pairs, manual : SUBSET Pairs, tenants : {200, 403, 500},
     namespaces : {200, 403}]

\* clientManager.getTenants / getNamespaces: the names, or nothing when the
\* request throws
tenantsFromApi(l) == IF l.tenants = 200 THEN TenantsOf(l.api) ELSE {}
namespacesFromApi(l, t) == IF l.namespaces = 200 THEN NamespacesOf(l.api, t) ELSE {}

Enumerated(place, t, names, failed) ==
    [place |-> place, tenant |-> t, names |-> names, failed |-> failed]

\* Explorer, cluster expanded: TenantNodes of the API tenants and of the
\* tenants of the manual namespaces
GetTenantNodes ==
    /\ shown = <<>>
    /\ shown' = Enumerated("tenants", "",
                           tenantsFromApi(listing) \cup TenantsOf(listing.manual), FALSE)
    /\ UNCHANGED <<extVars, sessionVars, registryVars, adminVars, topic, parsed, path, listing>>

\* Explorer, tenant expanded
GetNamespaceNodes(t) ==
    /\ shown = <<>>
    /\ shown' = Enumerated("namespaces", t,
                           namespacesFromApi(listing, t) \cup NamespacesOf(listing.manual, t),
                           FALSE)
    /\ UNCHANGED <<extVars, sessionVars, registryVars, adminVars, topic, parsed, path, listing>>

\* The loop over getTenants and getNamespaces that the subscriptions view,
\* findTopic and findSubscription share: the namespaces it visits, and
\* whether a listing threw
Visited(l) ==
    IF l.tenants # 200 \/ (l.namespaces # 200 /\ TenantsOf(l.api) # {})
      THEN [names |-> {}, failed |-> TRUE]
      ELSE [names |-> l.api, failed |-> FALSE]

\* Subscriptions view, cluster expanded; 'Find topic'; 'Find subscription'
Search(place) ==
    /\ shown = <<>>
    /\ shown' = Enumerated(place, "", Visited(listing).names, Visited(listing).failed)
    /\ UNCHANGED <<extVars, sessionVars, registryVars, adminVars, topic, parsed, path, listing>>

OverlayInit ==
    /\ SessionIdle /\ RegistryIdle /\ AdminIdle /\ ExtIdle
    /\ topic = <<>> /\ parsed = NotParsed /\ path = NoPath
    /\ listing \in Overlays /\ shown = <<>>

NextOverlay ==
    \/ GetTenantNodes
    \/ \E t \in TenantsOf(Pairs) : GetNamespaceNodes(t)
    \/ \E place \in {"subscriptions", "findTopic", "findSubscription"} : Search(place)

SpecOverlay == OverlayInit /\ [][NextOverlay]_vars

\* ------------------------------------------------------ manual namespaces
MaxUpdates == 3     \* add / removeManualNamespace calls that reach config.update
NamespacePaths == {"t/a", "t/b"}

\* manualNamespaces[clusterName].includes(namespacePath)
includes(l, x) == \E i \in 1..Len(l) : l[i] = x

\* manualNamespaces[clusterName].filter(ns => ns !== namespacePath)
RECURSIVE without(_, _)
without(l, x) ==
    IF l = <<>> THEN <<>>
    ELSE IF Head(l) = x THEN without(Tail(l), x)
    ELSE <<Head(l)>> \o without(Tail(l), x)

\* A call that reached config.update: the record it hands over, and whether
\* the write has completed
NewUpdate(op, n, ns, value) ==
    [op |-> op, cluster |-> n, path |-> ns, value |-> value, done |-> FALSE]

\* addManualNamespace(clusterName, namespacePath), up to the await of
\* config.update: nothing is written when the path is already listed
AddManualNamespace(n, ns) ==
    /\ kind = "none"
    /\ Len(updates) < MaxUpdates
    /\ ~includes(manualNamespaces[n], ns)
    /\ updates' = Append(updates,
                         NewUpdate("add", n, ns,
                                   [manualNamespaces EXCEPT ![n] = Append(@, ns)]))
    /\ UNCHANGED <<manualNamespaces, bus, importing, details>>
    /\ UNCHANGED <<sessionVars, registryVars, adminVars, fnVars>>

\* removeManualNamespace(clusterName, namespacePath), up to the await of
\* config.update: nothing is written when the cluster has no list
RemoveManualNamespace(n, ns) ==
    /\ kind = "none"
    /\ Len(updates) < MaxUpdates
    /\ manualNamespaces[n] # <<>>
    /\ updates' = Append(updates,
                         NewUpdate("remove", n, ns,
                                   [manualNamespaces EXCEPT ![n] = without(@, ns)]))
    /\ UNCHANGED <<manualNamespaces, bus, importing, details>>
    /\ UNCHANGED <<sessionVars, registryVars, adminVars, fnVars>>

\* The oldest config.update not yet completed completes: the setting holds the
\* record the call handed over, and config.get returns it from now on
ManualUpdateDone ==
    /\ \E i \in 1..Len(updates) :
          /\ ~updates[i].done
          /\ \A j \in 1..(i - 1) : updates[j].done
          /\ manualNamespaces' = updates[i].value
          /\ updates' = [updates EXCEPT ![i].done = TRUE]
    /\ UNCHANGED <<bus, importing, details>>
    /\ UNCHANGED <<sessionVars, registryVars, adminVars, fnVars>>

NextManual ==
    \/ \E n \in Names, ns \in NamespacePaths : AddManualNamespace(n, ns)
    \/ \E n \in Names, ns \in NamespacePaths : RemoveManualNamespace(n, ns)
    \/ ManualUpdateDone

SpecManual == RegistryInit /\ [][NextManual]_vars

\* ---------------------------------------------------------------- EventBus
MaxListeners == 3   \* on() / once() calls for the event
MaxEmits == 2       \* emit() / emitSync() calls for the event
ListenerKinds == {"on", "once", "throws"}

\* callbacks.map(...) / callbacks.forEach(...) over the event's own array: the
\* indexes 1..len of the array as it was at the start are visited, an index
\* the array no longer has is passed over, and the wrapper of a once-listener
\* splices itself out of the array (off) before it calls the callback.  A
\* listener that throws is caught and logged.
RECURSIVE Dispatch(_, _, _, _)
Dispatch(arr, k, len, inv) ==
    IF k > len THEN [listeners |-> arr, invoked |-> inv]
    ELSE IF k > Len(arr) THEN Dispatch(arr, k + 1, len, inv)
    ELSE Dispatch(IF arr[k].kind = "once" THEN Remove(arr, k) ELSE arr,
                  k + 1, len, Append(inv, arr[k].id))

\* How many times id occurs in the sequence inv
RECURSIVE Occurrences(_, _)
Occurrences(inv, id) ==
    IF inv = <<>> THEN 0
    ELSE (IF Head(inv) = id THEN 1 ELSE 0) + Occurrences(Tail(inv), id)

\* on(event, callback) and once(event, callback): the callback (or its
\* wrapper) is pushed onto the event's array
BusOn(how) ==
    /\ kind = "none"
    /\ bus.registered < MaxListeners
    /\ bus' = [bus EXCEPT !.registered = @ + 1,
                          !.listeners = Append(@, [id |-> bus.registered + 1, kind |-> how]),
                          !.fired = Append(@, 0)]
    /\ UNCHANGED <<manualNamespaces, updates, importing, details>>
    /\ UNCHANGED <<sessionVars, registryVars, adminVars, fnVars>>

\* off(event, callback), also what on() and once() return: splice(indexOf)
BusOff(id) ==
    /\ kind = "none"
    /\ \E i \in 1..Len(bus.listeners) :
          /\ bus.listeners[i].id = id
          /\ bus' = [bus EXCEPT !.listeners = Remove(@, i)]
    /\ UNCHANGED <<manualNamespaces, updates, importing, details>>
    /\ UNCHANGED <<sessionVars, registryVars, adminVars, fnVars>>

\* emit(event) up to its await, and emitSync(event): every callback is called
\* in the same synchronous pass
BusEmit ==
    /\ kind = "none"
    /\ bus.emits < MaxEmits
    /\ bus.listeners # <<>>
    /\ LET d == Dispatch(bus.listeners, 1, Len(bus.listeners), <<>>)
       IN  bus' = [bus EXCEPT !.emits = @ + 1,
                              !.snapshot = bus.listeners,
                              !.listeners = d.listeners,
                              !.invoked = d.invoked,
                              !.fired = [i \in 1..Len(@) |-> @[i] + Occurrences(d.invoked, i)]]
    /\ UNCHANGED <<manualNamespaces, updates, importing, details>>
    /\ UNCHANGED <<sessionVars, registryVars, adminVars, fnVars>>

NextBus ==
    \/ \E k \in ListenerKinds : BusOn(k)
    \/ \E id \in 1..MaxListeners : BusOff(id)
    \/ BusEmit

SpecBus == RegistryInit /\ [][NextBus]_vars

\* ------------------------------------------------------ importConfiguration
MergeStrategies == {"append", "overwrite", "skip"}

\* credentialManager.storeAuthToken, called when the imported cluster carries
\* a token and authenticates with one
ImportedSecrets(ss, conn) ==
    IF conn.authToken # NoToken /\ conn.authMethod = "token" THEN ss \cup {conn.name} ELSE ss

\* What importing holds while one imported cluster is processed: existed and
\* hadSecret are hasCluster(name) and the presence of its credentials when
\* the loop reached it, call the addCluster / removeCluster call awaited
Importing(pc, strategy, conn, awaited, outcome) ==
    [pc |-> pc, strategy |-> strategy, conn |-> conn,
     existed |-> conn.name \in DOMAIN clusters, hadSecret |-> conn.name \in secrets,
     call |-> awaited, outcome |-> outcome]

\* One turn of the loop over importedConfig.clusters, up to its first await:
\* an existing cluster is skipped with append and skip, and removed first
\* with overwrite; a new one has its token stored and is added
ImportCluster(conn, strategy) ==
    /\ kind = "none"
    /\ importing.pc \in {"idle", "done"}
    /\ Len(calls) + (IF conn.name \in DOMAIN clusters /\ strategy = "overwrite" THEN 2 ELSE 1)
          <= MaxCalls
    /\ LET exists == conn.name \in DOMAIN clusters
       IN  IF exists /\ strategy \in {"skip", "append"}
             THEN /\ importing' = Importing("done", strategy, conn, 0, "skipped")
                  /\ UNCHANGED <<clusters, secrets, calls>>
           ELSE IF exists
             THEN /\ clusters' = ClustersDelete(clusters, conn.name)
                  /\ calls' = Append(calls, NewCall("remove", conn, "deleteCredentials"))
                  /\ importing' = Importing("removing", strategy, conn, Len(calls) + 1, "")
                  /\ UNCHANGED secrets
           ELSE   /\ secrets' = ImportedSecrets(secrets, conn)
                  /\ calls' = Append(calls, NewCall("add", conn,
                                                    IF conn.authMethod = "token"
                                                      THEN "getToken" ELSE "health"))
                  /\ importing' = Importing("adding", strategy, conn, Len(calls) + 1, "")
                  /\ UNCHANGED clusters
    /\ regAct' = <<"ImportCluster", Len(calls')>>
    /\ UNCHANGED <<persisted, warned, resolved>>
    /\ UNCHANGED <<manualNamespaces, updates, bus, details>>
    /\ UNCHANGED <<sessionVars, adminVars, fnVars>>

\* await clientManager.removeCluster(name) returned or threw: the token is
\* stored and addCluster is called, or the error is pushed onto errors
ImportRemoved ==
    /\ kind = "none"
    /\ importing.pc = "removing"
    /\ calls[importing.call].pc = "done"
    /\ IF calls[importing.call].result = "ok"
         THEN /\ secrets' = ImportedSecrets(secrets, importing.conn)
              /\ calls' = Append(calls, NewCall("add", importing.conn,
                                                IF importing.conn.authMethod = "token"
                                                  THEN "getToken" ELSE "health"))
              /\ importing' = [importing EXCEPT !.pc = "adding", !.call = Len(calls) + 1]
         ELSE /\ importing' = [importing EXCEPT !.pc = "done", !.outcome = "failed"]
              /\ UNCHANGED <<secrets, calls>>
    /\ regAct' = <<"ImportRemoved", Len(calls')>>
    /\ UNCHANGED <<clusters, persisted, warned, resolved>>
    /\ UNCHANGED <<manualNamespaces, updates, bus, details>>
    /\ UNCHANGED <<sessionVars, adminVars, fnVars>>

\* await clientManager.addCluster(connection) returned (a count goes up) or
\* threw (the error is pushed onto errors and the loop goes on)
ImportAdded ==
    /\ kind = "none"
    /\ importing.pc = "adding"
    /\ calls[importing.call].pc = "done"
    /\ importing' = [importing EXCEPT !.pc = "done",
                                      !.outcome = IF calls[importing.call].result = "ok"
                                                    THEN (IF importing.existed THEN "updated"
                                                          ELSE "added")
                                                    ELSE "failed"]
    /\ regAct' = <<"ImportAdded", importing.call>>
    /\ UNCHANGED <<clusters, persisted, secrets, calls, warned, resolved>>
    /\ UNCHANGED <<manualNamespaces, updates, bus, details>>
    /\ UNCHANGED <<sessionVars, adminVars, fnVars>>

NextImport ==
    \/ LoadConfiguration
    \/ \E conn \in Connections, strategy \in MergeStrategies : ImportCluster(conn, strategy)
    \/ ImportRemoved
    \/ ImportAdded
    \/ \E i \in 1..MaxCalls : AddGotToken(i)
    \/ \E i \in 1..MaxCalls, out \in PassFail : AddHealthChecked(i, out)
    \/ \E i \in 1..MaxCalls, out \in PassFail : AddListedClusters(i, out)
    \/ \E i \in 1..MaxCalls, out \in ProbeOutcomes : AddListedTenants(i, out)
    \/ \E i \in 1..MaxCalls : SaveDone(i)
    \/ \E i \in 1..MaxCalls, ok \in BOOLEAN : RemoveDeletedCredentials(i, ok)

SpecImport == StartupInit /\ [][NextImport]_vars

\* ------------------------------- TopicDetailsWebview, ClusterDashboardWebview
MaxViews == 4       \* show() calls on one details / dashboard webview

\* clearInterval(this.refreshInterval): the field keeps the id
clearInterval(timers, id) == timers \ {id}

\* show(), up to the await of the initial refreshData(): the interval the
\* field names is cleared, and the panel is revealed or created
DetailsShowStart(t) ==
    /\ kind = "none"
    /\ details.shows < MaxViews
    /\ details' = [details EXCEPT !.shows = @ + 1,
                                  !.topicName = t,
                                  !.timers = clearInterval(@, details.refreshInterval),
                                  !.panel = TRUE,
                                  !.pending = @ + 1]
    /\ UNCHANGED <<manualNamespaces, updates, bus, importing>>
    /\ UNCHANGED <<sessionVars, registryVars, adminVars, fnVars>>

\* show(), after the initial refreshData() (which catches its own errors):
\* this.refreshInterval = setInterval(...)
DetailsShowResume ==
    /\ kind = "none"
    /\ details.pending > 0
    /\ details' = [details EXCEPT !.pending = @ - 1,
                                  !.created = @ + 1,
                                  !.refreshInterval = details.created + 1,
                                  !.timers = @ \cup {details.created + 1}]
    /\ UNCHANGED <<manualNamespaces, updates, bus, importing>>
    /\ UNCHANGED <<sessionVars, registryVars, adminVars, fnVars>>

\* panel.onDidDispose (the user closed the panel, or dispose() was called)
DetailsDispose ==
    /\ kind = "none"
    /\ details.panel
    /\ details' = [details EXCEPT !.timers = clearInterval(@, details.refreshInterval),
                                  !.panel = FALSE]
    /\ UNCHANGED <<manualNamespaces, updates, bus, importing>>
    /\ UNCHANGED <<sessionVars, registryVars, adminVars, fnVars>>

NextDetails ==
    \/ \E t \in Topics : DetailsShowStart(t)
    \/ DetailsShowResume
    \/ DetailsDispose

SpecDetails == RegistryInit /\ [][NextDetails]_vars

Init == ConsumerInit \/ ProducerInit

Next ==
    \/ \E t \in Topics : ConsumerShowStart(t)
    \/ \E i \in 1..MaxShows, ok \in BOOLEAN : ConsumerShowResume(i, ok)
    \/ \E s \in Subscriptions, p \in {NoPartition} \cup 0..1, known \in BOOLEAN :
          ConsumerConnect(s, p, known)
    \/ ConsumerDisconnect
    \/ ConsumerDispose
    \/ \E p \in Patterns \cup {""}, mode \in {"exact", "regex"}, auto \in BOOLEAN :
          ConsumerSetKeyFilter(p, mode, auto)
    \/ \E c \in 1..MaxConns : ConsumerOnOpen(c)
    \/ \E c \in 1..MaxConns, k \in Keys \cup {NoKey} : ConsumerOnMessage(c, k)
    \/ \E c \in 1..MaxConns, f \in {"ok", "err", "garbage"} : ConsumerOnOtherFrame(c, f)
    \/ \E c \in 1..MaxConns : ConsumerOnError(c)
    \/ \E c \in 1..MaxConns : ConsumerOnClose(c)
    \/ \E t \in Topics : ProducerShowStart(t)
    \/ \E i \in 1..MaxOpens, ok \in BOOLEAN, known \in BOOLEAN : ProducerShowResume(i, ok, known)
    \/ \E known \in BOOLEAN : ProducerReconnect(known)
    \/ \E p \in 0..1, known \in BOOLEAN : ProducerSelectPartition(p, known)
    \/ ProducerSend
    \/ ProducerDispose
    \/ \E c \in 1..MaxConns : ProducerOnOpen(c)
    \/ \E c \in 1..MaxConns, f \in {"ok", "err", "garbage"} : ProducerOnMessage(c, f)
    \/ \E c \in 1..MaxConns : ProducerOnError(c)
    \/ \E c \in 1..MaxConns : ProducerOnClose(c)

Spec == Init /\ [][Next]_vars

\* ------------------------------------------------- both sessions, with traffic
\* A consumer on the plain topic or a producer on the partitioned topic of a
\* known cluster: the session is shown, connects (the producer also switches
\* partition and sends), and its sockets open, deliver frames, fail and close
NextTraffic ==
    \/ \E t \in {"t0"} : ConsumerShowStart(t)
    \/ \E i \in 1..MaxShows : ConsumerShowResume(i, TRUE)
    \/ \E s \in Subscriptions : ConsumerConnect(s, NoPartition, TRUE)
    \/ \E c \in 1..MaxConns : ConsumerOnOpen(c)
    \/ \E c \in 1..MaxConns : ConsumerOnMessage(c, NoKey)
    \/ \E c \in 1..MaxConns : ConsumerOnError(c)
    \/ \E c \in 1..MaxConns : ConsumerOnClose(c)
    \/ \E t \in {"t2"} : ProducerShowStart(t)
    \/ \E i \in 1..MaxOpens : ProducerShowResume(i, TRUE, TRUE)
    \/ \E p \in 0..1 : ProducerSelectPartition(p, TRUE)
    \/ ProducerSend
    \/ \E c \in 1..MaxConns : ProducerOnOpen(c)
    \/ \E c \in 1..MaxConns, f \in {"ok", "err", "garbage"} : ProducerOnMessage(c, f)
    \/ \E c \in 1..MaxConns : ProducerOnError(c)
    \/ \E c \in 1..MaxConns : ProducerOnClose(c)

SpecTraffic == Init /\ [][NextTraffic]_vars

\* ------------------------------------------------------- consumer, filtering
\* One consumer on the plain topic: filters are set, messages arrive with
\* every kind of key: a string, the empty string, or none
FilterKeys == Keys \cup {"", NoKey}
FilterPatterns == Patterns \cup {".*", ""}

NextFilter ==
    \/ \E t \in {"t0"} : ConsumerShowStart(t)
    \/ \E i \in 1..MaxShows, ok \in BOOLEAN : ConsumerShowResume(i, ok)
    \/ \E s \in Subscriptions, known \in BOOLEAN : ConsumerConnect(s, NoPartition, known)
    \/ \E p \in FilterPatterns, mode \in {"exact", "regex"}, auto \in BOOLEAN :
          ConsumerSetKeyFilter(p, mode, auto)
    \/ \E c \in 1..MaxConns : ConsumerOnOpen(c)
    \/ \E c \in 1..MaxConns, k \in FilterKeys : ConsumerOnMessage(c, k)

SpecFilter == ConsumerInit /\ [][NextFilter]_vars

\* ------------------------------------------------- connection lifecycle only
\* Both sessions without their traffic: the commands that open and close
\* connections and the transport's open / error / close events.
NextLifecycle ==
    \/ \E t \in Topics : ConsumerShowStart(t)
    \/ \E i \in 1..MaxShows, ok \in BOOLEAN : ConsumerShowResume(i, ok)
    \/ \E s \in Subscriptions, p \in {NoPartition} \cup 0..1, known \in BOOLEAN :
          ConsumerConnect(s, p, known)
    \/ ConsumerDisconnect
    \/ ConsumerDispose
    \/ \E c \in 1..MaxConns : ConsumerOnOpen(c)
    \/ \E c \in 1..MaxConns : ConsumerOnError(c)
    \/ \E c \in 1..MaxConns : ConsumerOnClose(c)
    \/ \E t \in Topics : ProducerShowStart(t)
    \/ \E i \in 1..MaxOpens, ok \in BOOLEAN, known \in BOOLEAN : ProducerShowResume(i, ok, known)
    \/ \E known \in BOOLEAN : ProducerReconnect(known)
    \/ \E p \in 0..1, known \in BOOLEAN : ProducerSelectPartition(p, known)
    \/ ProducerDispose
    \/ \E c \in 1..MaxConns : ProducerOnOpen(c)
    \/ \E c \in 1..MaxConns : ProducerOnError(c)
    \/ \E c \in 1..MaxConns : ProducerOnClose(c)

SpecLifecycle == Init /\ [][NextLifecycle]_vars

\* ------------------------------------------------------- producer, outbound
\* The producer on the partitioned topic, without the broker's answers
NextSend ==
    \/ \E t \in {"t2"} : ProducerShowStart(t)
    \/ \E i \in 1..MaxOpens, ok \in BOOLEAN, known \in BOOLEAN : ProducerShowResume(i, ok, known)
    \/ \E known \in BOOLEAN : ProducerReconnect(known)
    \/ \E p \in 0..1, known \in BOOLEAN : ProducerSelectPartition(p, known)
    \/ ProducerSend
    \/ ProducerDispose
    \/ \E c \in 1..MaxConns : ProducerOnOpen(c)
    \/ \E c \in 1..MaxConns : ProducerOnError(c)
    \/ \E c \in 1..MaxConns : ProducerOnClose(c)

SpecSend == ProducerInit /\ [][NextSend]_vars

\* ==================================================================== claims

\* C1: a message frame that arrives on a connection of the consumer after
\* close() was called on it is dropped: no messageReceived is posted, the
\* message list and the received counter stay as they were.
LateFrameDropped ==
    [][(kind = "consumer" /\ lastAct'.name = "OnMessage" /\ lastAct'.frame = "msg"
          /\ lastAct'.late)
       => /\ messages' = messages
          /\ messageCount' = messageCount
          /\ "messageReceived" \notin lastPosts']_vars

\* C2: every acknowledgment a consumer connection has sent is for a message
\* that arrived on that same connection.
AckOnArrivalConnection ==
    kind = "consumer" =>
        \A c \in 1..Len(conns) :
            \A j \in 1..Len(conns[c].sent) :
                \E i \in 1..Len(conns[c].recv) : conns[c].recv[i] = conns[c].sent[j]

\* C3: within one run of the consumer (from one connect to the next)
\* autoStopped is posted at most once, and when it is posted no connection of
\* the session is left connecting or open.
AutoStopOnceClosesAll ==
    kind = "consumer" =>
        /\ autoStopped <= 1
        /\ ("autoStopped" \in lastPosts => \A c \in 1..Len(conns) : ~Live(c))

\* C4: every connection of a session other than its current one has had
\* close() called on it or has ended; none is left connecting or open.
NoConnectionOutlivesSession ==
    \A c \in 1..Len(conns) : c # ws => ~Live(c)

\* C5: a connect of the consumer that opens connections opens one per
\* partition index 0..N-1 of a topic with N > 0 partitions, and exactly one,
\* to the bare topic, when the topic is not partitioned.
ConnectOpensAllPartitions ==
    [][(kind = "consumer" /\ lastAct'.name = "Connect" /\ Len(conns') > Len(conns))
       => LET opened == (Len(conns) + 1)..Len(conns')
              partitions == {conns'[c].partition : c \in opened}
          IN  IF partitionCount > 0
                THEN Cardinality(opened) = partitionCount
                     /\ partitions = 0..(partitionCount - 1)
                ELSE Cardinality(opened) = 1 /\ partitions = {NoPartition}]_vars

\* C6: a send of the producer while this.ws is missing or not OPEN leaves every
\* connection's outbound frames as they were, is answered with an error, and
\* its message is never among the frames any connection sends later.
SendWhenNotOpenRefused ==
    /\ [][(kind = "producer" /\ lastAct'.name = "Send"
             /\ ~(ws # 0 /\ conns[ws].state = "OPEN"))
          => /\ conns' = conns
             /\ nextId \in rejected'
             /\ "error" \in lastPosts']_vars
    /\ [](\A c \in 1..Len(conns) :
             \A j \in 1..Len(conns[c].sent) : conns[c].sent[j] \notin rejected)

SendRefusedThenLaterSent ==
    /\ kind = "producer"
    /\ rejected # {}
    /\ ws # 0 /\ conns[ws].state = "OPEN"
    /\ Len(conns[ws].sent) > 0
    /\ \A j \in 1..Len(conns[ws].sent) : conns[ws].sent[j] \notin rejected

\* C7: every frame the producer receives is counted once: result ok adds one
\* to messageCount and leaves errorCount, any other frame (negative or
\* malformed) adds one to errorCount and leaves messageCount, and the page is
\* sent the status.
AckFrameCounted ==
    [][(kind = "producer" /\ lastAct'.name = "OnMessage")
       => /\ IF lastAct'.frame = "ok"
               THEN messageCount' = messageCount + 1 /\ errorCount' = errorCount
               ELSE errorCount' = errorCount + 1 /\ messageCount' = messageCount
          /\ (panel => "status" \in lastPosts')]_vars

\* C8: a new connection appears only in a step of connect, reconnect,
\* selectPartition or show; an 'error' or 'close' event of a connection leaves
\* the session not connected, with the same connections and the same current
\* one, and posts error or disconnected to the page.
NoAutoReconnect ==
    [][/\ (Len(conns') > Len(conns)
             => lastAct'.name \in {"Connect", "Reconnect", "SelectPartition", "ShowResume"})
       /\ (lastAct'.name \in {"OnError", "OnClose"}
             => /\ ~isConnected'
                /\ Len(conns') = Len(conns)
                /\ ws' = ws
                /\ \A c \in 1..Len(conns) : conns'[c].state \in {"ERRORED", "CLOSED"}
                                              \/ conns'[c] = conns[c]
                /\ (panel => lastPosts' \cap {"error", "disconnected"} # {}))]_vars

ClosedAndLeftClosed ==
    /\ lastAct.name = "OnClose"
    /\ Len(conns) = 1 /\ ws = 1 /\ conns[1].state = "CLOSED"
    /\ ~isConnected
    /\ "disconnected" \in lastPosts

\* C9: no step replaces the registration of a name that stays registered.
RegistrationNeverReplaced ==
    [][\A n \in DOMAIN clusters :
          n \in DOMAIN clusters' => clusters'[n] = clusters[n]]_vars

\* The probes of call k: health check and list-clusters failed, list-tenants
\* ended with 401 or 403
LimitedProbe(k) ==
    /\ k.op = "add"
    /\ k.hc = NetworkError /\ k.lc = NetworkError
    /\ k.lt \in {401, 403}

\* C10: an addCluster whose health check and list-clusters request failed and
\* whose list-tenants request ended with 401 or 403 logs the warning, registers
\* the connection, hands the list with it to the configuration, and returns
\* without an error once the list is written.
LimitedPermissionsAccepted ==
    \A i \in 1..Len(calls) :
        LimitedProbe(calls[i]) =>
            LET k == calls[i]
                n == k.conn.name
            IN  /\ n \in warned
                /\ k.pc \in {"saving", "done"}
                /\ (k.pc = "done" => k.result = "ok")
                /\ n \in DOMAIN k.snapshot
                /\ k.snapshot[n].url = k.conn.url
                /\ (regAct = <<"AddListedTenants", i>>
                      => n \in DOMAIN clusters /\ clusters[n] = k.conn)
                /\ (regAct = <<"SaveDone", i>> => persisted = k.snapshot)

LimitedPermissionsAdded ==
    \E i \in 1..Len(calls) :
        /\ LimitedProbe(calls[i])
        /\ calls[i].pc = "done" /\ calls[i].result = "ok"
        /\ calls[i].conn.name \in DOMAIN clusters
        /\ calls[i].conn.name \in DOMAIN persisted
        /\ calls[i].conn.name \in warned

\* The probes of call k: health check and list-clusters failed, list-tenants
\* failed with something other than 401 or 403
FatalProbe(k) ==
    /\ k.op = "add"
    /\ k.hc = NetworkError /\ k.lc = NetworkError
    /\ k.lt \in {500, NetworkError, Timeout}

\* C11: an addCluster whose health check and list-clusters request failed and
\* whose list-tenants request failed with anything but 401 or 403 throws an
\* error that carries the message of that failure; the step that ends it
\* leaves the registered clusters, the persisted list and the warnings as they
\* were, and the call never hands a list to the configuration.
FatalProbeFailsAdd ==
    /\ [][\A i \in 1..Len(calls) :
             (calls[i].pc = "tenants" /\ FatalProbe(calls'[i]))
                => clusters' = clusters /\ persisted' = persisted /\ warned' = warned]_vars
    /\ [](\A i \in 1..Len(calls) :
             FatalProbe(calls[i]) =>
                /\ calls[i].pc = "done" /\ calls[i].result = "failed"
                /\ calls[i].error = <<"Failed to connect to cluster", calls[i].conn.name,
                                      CauseMessage(calls[i].lt)>>
                /\ CauseMessage(calls[i].lt) \notin {"HTTP 401", "HTTP 403"}
                /\ calls[i].snapshot = <<>>)

FatalProbeAddFailed ==
    \E i \in 1..Len(calls) :
        /\ FatalProbe(calls[i]) /\ calls[i].lt = Timeout
        /\ calls[i].result = "failed"
        /\ calls[i].error[3] = "Request timeout after ms"
        /\ calls[i].conn.name \notin DOMAIN clusters
        /\ calls[i].conn.name \notin DOMAIN persisted

\* The map m with every token replaced by t
WithTokens(m, t) == [n \in DOMAIN m |-> [m[n] EXCEPT !.authToken = t]]

\* C12: what saveConfiguration() writes does not depend on the tokens of the
\* registered connections (the same clusters with any other tokens give the
\* same value), every value handed to the configuration is that value for the
\* clusters registered at that moment, and no entry of the persisted list
\* has an authToken.
TokenNeverPersisted ==
    /\ [][\A i \in 1..Len(calls) :
             (calls'[i].pc = "saving" /\ calls[i].pc # "saving")
                => \A t \in Tokens \cup {NoToken} :
                      calls'[i].snapshot = clustersToSave(WithTokens(clusters', t))]_vars
    /\ [][persisted' # persisted
             => \E i \in 1..Len(calls) : persisted' = calls[i].snapshot]_vars
    /\ [](\A n \in DOMAIN persisted : "authToken" \notin DOMAIN persisted[n])

TokenClusterPersisted ==
    /\ regAct[1] = "SaveDone"
    /\ \E n \in DOMAIN clusters :
          /\ clusters[n].authToken \in Tokens
          /\ n \in DOMAIN persisted
          /\ persisted[n].authMethod = "token"

\* Call j is an addCluster for name n that has registered it
Registered(j, n) ==
    /\ calls[j].op = "add" /\ calls[j].conn.name = n
    /\ calls[j].pc \in {"saving", "done"} /\ calls[j].result # "failed"

\* C13: removeCluster(name) takes the name out of the registered clusters at
\* once; a name that is not registered becomes registered only by a step of an
\* addCluster for it, and until then an operation addressed to it finds no
\* client (cluster not found, nothing requested); when the secret deletion
\* returns the name has no stored secret and the list handed to the
\* configuration is the one of the clusters registered then; when the call
\* returns the persisted list is that list, and it holds the name only if
\* an addCluster registered the name again.
RemoveDeregisters ==
    /\ [][regAct'[1] = "RemoveCluster"
             => calls'[regAct'[2]].conn.name \notin DOMAIN clusters']_vars
    /\ [][\A n \in Names :
             (n \notin DOMAIN clusters /\ n \in DOMAIN clusters')
                => /\ regAct'[1] \in {"AddHealthChecked", "AddListedClusters", "AddListedTenants"}
                   /\ calls'[regAct'[2]].conn.name = n]_vars
    /\ [][regAct'[1] = "AdminOperation"
             => /\ resolved'.found = (resolved'.name \in DOMAIN clusters)
                /\ clusters' = clusters /\ calls' = calls]_vars
    /\ [][\A i \in 1..Len(calls) :
             (calls[i].op = "remove" /\ calls[i].pc = "deleteCredentials"
                /\ calls'[i].pc = "saving")
                => /\ calls[i].conn.name \notin secrets'
                   /\ DOMAIN calls'[i].snapshot = DOMAIN clusters]_vars
    /\ [](\A i \in 1..Len(calls) :
             (calls[i].op = "remove" /\ calls[i].pc = "done" /\ calls[i].result = "ok")
                => /\ (regAct = <<"SaveDone", i>> => persisted = calls[i].snapshot)
                   /\ (calls[i].conn.name \in DOMAIN calls[i].snapshot
                          => \E j \in 1..Len(calls) : Registered(j, calls[i].conn.name)))

RemovedAndNotFound ==
    \E i \in 1..Len(calls) :
        /\ calls[i].op = "remove" /\ calls[i].pc = "done" /\ calls[i].result = "ok"
        /\ \E j \in 1..(i - 1) : Registered(j, calls[i].conn.name) /\ calls[j].pc = "done"
        /\ calls[i].conn.name \notin DOMAIN clusters
        /\ calls[i].conn.name \notin DOMAIN persisted
        /\ calls[i].conn.name \notin secrets
        /\ resolved = [name |-> calls[i].conn.name, found |-> FALSE]

\* C14: a deleteTopic whose metadata lookup failed requests the plain delete
\* next, requests nothing after it, and returns or throws what that delete
\* request ended with.
DeleteAfterFailedLookup ==
    (call.op = "deleteTopic" /\ Len(log) >= 1 /\ ~log[1].res.ok) =>
        /\ log[1].ep = "partitions"
        /\ IF Len(log) = 1
             THEN call.pc = "delete"
             ELSE /\ Len(log) = 2 /\ log[2].ep = "delete"
                  /\ call.pc = "done"
                  /\ call.ok = log[2].res.ok
                  /\ call.status = log[2].res.status
                  /\ call.message = log[2].res.message

DeletedAfterFailedLookup ==
    /\ call.op = "deleteTopic" /\ call.pc = "done" /\ call.ok
    /\ Len(log) = 2 /\ log[1].r.status = 500 /\ log[2].ep = "delete"

\* C15: a deleteTopic whose metadata lookup returned a partition count makes
\* one delete request, to the partitioned endpoint when the count is above 0
\* and to the plain endpoint when it is 0, and returns or throws what that
\* request ended with.
DeleteRequestedOnce ==
    (call.op = "deleteTopic" /\ Len(log) >= 1 /\ log[1].res.ok
        /\ log[1].res.value.defined) =>
        LET endpoint == IF log[1].res.value.partitions > 0
                          THEN "deletePartitioned" ELSE "delete"
        IN  IF Len(log) = 1
              THEN call.pc = endpoint
              ELSE /\ Len(log) = 2 /\ log[2].ep = endpoint
                   /\ call.pc = "done"
                   /\ call.ok = log[2].res.ok

\* C16: getSubscriptionStats requests the topic's stats first; it requests
\* the partitioned stats, once, exactly when the first request was answered
\* 404; any other failure of the first request, and a failure of the second,
\* is what the call throws.
StatsFallbackOn404Only ==
    (call.op = "getSubscriptionStats" /\ Len(log) >= 1) =>
        /\ log[1].ep = "stats" /\ Len(log) <= 2
        /\ (Len(log) = 2 \/ call.pc # "done") <=> (log[1].r.status = 404)
        /\ (~log[1].res.ok /\ log[1].r.status # 404)
              => /\ call.pc = "done" /\ ~call.ok
                 /\ call.status = log[1].res.status /\ call.message = log[1].res.message
        /\ (Len(log) = 1 /\ call.pc # "done") => call.pc = "partitioned-stats"
        /\ Len(log) = 2
              => /\ log[2].ep = "partitioned-stats" /\ call.pc = "done"
                 /\ (~log[2].res.ok
                       => /\ ~call.ok /\ call.status = log[2].res.status
                          /\ call.message = log[2].res.message)

StatsFromPartitionedFallback ==
    /\ call.op = "getSubscriptionStats" /\ call.pc = "done" /\ call.ok
    /\ Len(log) = 2 /\ log[1].r.status = 404 /\ log[2].ep = "partitioned-stats"

\* The topics a listing request contributed: those of its JSON body when it
\* was answered 200 with one, none otherwise
TopicsOf(e) ==
    IF e.r.status = 200 /\ e.r.ctype = "json" /\ e.r.body = "json"
      THEN e.res.value.topics ELSE <<>>

\* C17: getTopics requests the persistent and then the non-persistent
\* listing whatever the first ended with, and returns, without failing, the
\* topics of the listings that came with a JSON body.
TopicsUnionTolerant ==
    (call.op = "getTopics" /\ Len(log) >= 1) =>
        /\ log[1].ep = "persistent"
        /\ IF Len(log) = 1
             THEN call.pc = "non-persistent"
             ELSE /\ Len(log) = 2 /\ log[2].ep = "non-persistent"
                  /\ call.pc = "done" /\ call.ok
                  /\ call.value.topics = TopicsOf(log[1]) \o TopicsOf(log[2])

\* C18: every request answered with a status outside 200..299 throws an
\* error with that status, and every request answered 2xx with an empty body
\* or a body that is not JSON returns undefined.
RequestOutcomeByResponse ==
    \A i \in 1..Len(log) :
        LET e == log[i]
        IN  e.r.status \notin {NetworkError, Timeout} =>
              /\ e.r.status \notin 200..299
                    => ~e.res.ok /\ e.res.status = e.r.status
              /\ (e.r.status \in 200..299 /\ e.r.body \in {"empty", "garbage"})
                    => e.res.ok /\ ~e.res.value.defined

\* C19: once the request timeout has passed since an admin call or a health
\* check began, the call has ended, and a call that has ended has left no
\* timer pending.
TerminatesWithinTimeout ==
    /\ timer.elapsed => call.pc = "done"
    /\ call.pc = "done" => ~timer.armed

\* C20: for every consumed message, with a key or without one, what the
\* handler computes as Matches is false when no filter is configured or the
\* message has no key, otherwise equality with the filter (exact mode) or the
\* test of the filter's regular expression (regex mode); and ShouldHide is
\* true exactly when a filter is active and Matches is false.
KeyFilterContract ==
    (lastAct.name = "OnMessage" /\ lastAct.frame = "msg") =>
        LET k == lastAct.key
            Matches == IF keyFilter = "" \/ k = NoKey THEN FALSE
                       ELSE IF keyFilterMode = "exact" THEN k = keyFilter
                       ELSE RegexTest(keyFilter, k)
        IN  /\ lastAct.matches = Matches
            /\ lastAct.hide = (keyFilter # "" /\ ~Matches)

\* C21: setting a regex-mode filter whose pattern does not compile leaves the
\* filter inactive and reports the error, whatever auto-stop was requested;
\* and while the filter is inactive every consumed message has Matches and
\* ShouldHide false and triggers no auto-stop.
InvalidPatternClearsFilter ==
    /\ [][\A auto \in BOOLEAN :
            ConsumerSetKeyFilter("[", "regex", auto)
                => /\ keyFilter' = "" /\ compiledKeyFilterRegex' = ""
                   /\ lastAct'.frame = "warned"]_vars
    /\ []((keyFilter = "" /\ lastAct.name = "OnMessage" /\ lastAct.frame = "msg")
            => /\ ~lastAct.matches /\ ~lastAct.hide
               /\ "autoStopped" \notin lastPosts)

\* An uncompilable pattern was just refused with auto-stop requested, on a
\* session that is connected and has consumed messages
InvalidPatternRefused ==
    /\ lastAct.name = "SetKeyFilter" /\ lastAct.frame = "warned"
    /\ autoStopOnMatch /\ keyFilter = ""
    /\ ws # 0 /\ messageCount > 0

\* A fully-qualified address: scheme, '//', tenant and namespace without '/',
\* and a name, each at least one character long
Qualified(x, i, j) ==
    /\ Len(x) >= 3 /\ x[1] \in Schemes /\ x[2] = "/" /\ x[3] = "/"
    /\ 4 < i /\ i + 1 < j /\ j < Len(x)
    /\ x[i] = "/" /\ x[j] = "/"
    /\ \A k \in 4..(j - 1) : k # i => x[k] # "/"

\* C22: parsing an address always returns, and returns the first of: the
\* scheme, tenant, namespace and rest of an address matching
\* scheme://tenant/namespace/rest; persistent with the three segments of an
\* address of exactly three segments; persistent, public, default and the
\* whole input.
ParseTriesThreeForms ==
    path # NoPath /\ path.op \in TopicOperations =>
        LET x == topic
            matching == \E i, j \in 1..Len(x) :
                            Qualified(x, i, j) /\ \A k \in (j + 1)..Len(x) : x[k] # "\n"
            three == \E i, j \in 1..Len(x) : i < j /\ SlashAt(x) = {i, j}
        IN  IF matching
              THEN \E i, j \in 1..Len(x) :
                      /\ Qualified(x, i, j)
                      /\ parsed.persistent = (x[1] = "persistent:")
                      /\ parsed.tenant = SubSeq(x, 4, i - 1)
                      /\ parsed.namespace = SubSeq(x, i + 1, j - 1)
                      /\ parsed.topicName = SubSeq(x, j + 1, Len(x))
            ELSE IF three
              THEN \E i, j \in 1..Len(x) :
                      /\ i < j /\ SlashAt(x) = {i, j}
                      /\ parsed.persistent
                      /\ parsed.tenant = SubSeq(x, 1, i - 1)
                      /\ parsed.namespace = SubSeq(x, i + 1, j - 1)
                      /\ parsed.topicName = SubSeq(x, j + 1, Len(x))
            ELSE /\ parsed.persistent
                 /\ parsed.tenant = <<"public">> /\ parsed.namespace = <<"default">>
                 /\ parsed.topicName = x

\* An address of three segments, with no scheme, was parsed
ParsedThreeSegments ==
    /\ path.op \in TopicOperations /\ parsed.form = 2
    /\ topic = <<"a", "/", "a", "/", "#">>

PathSegmentsEncoded ==
    path # NoPath =>
        /\ path.tenant = encodeURIComponent(parsed.tenant)
        /\ path.namespace = encodeURIComponent(parsed.namespace)
        /\ path.op \in TopicOperations
              => path.topicName = encodeURIComponent(parsed.topicName)

\* C25: the topics shown for a namespace are the base names of the listed
\* topics, each once, with as partition count the number of listed entries
\* that are partitions of it.
TopicsDeduplicated ==
    shown # <<>> =>
        LET indices == 1..Len(listing.topics)
        IN  /\ {listing.topics[i].base : i \in indices} \subseteq {n.name : n \in shown.nodes}
            /\ \A n \in shown.nodes :
                  /\ n.partitions = Cardinality({i \in indices :
                        listing.topics[i].base = n.name
                        /\ listing.topics[i].partition # NoPartition})
                  /\ \A m \in shown.nodes : m.name = n.name => m = n

\* C26: wherever tenants or namespaces are enumerated, the result is the
\* union of what the API lists (nothing when the listing is refused) and the
\* manually registered entries of the cluster.
ManualNamespacesMerged ==
    shown # <<>> =>
        LET discovered == IF listing.tenants = 200 /\ listing.namespaces = 200
                            THEN listing.api ELSE {}
        IN  CASE shown.place = "tenants" ->
                   shown.names = tenantsFromApi(listing) \cup TenantsOf(listing.manual)
              [] shown.place = "namespaces" ->
                   shown.names = namespacesFromApi(listing, shown.tenant)
                                   \cup NamespacesOf(listing.manual, shown.tenant)
              [] OTHER -> listing.manual \cup discovered \subseteq shown.names

\* C27: after the session is shown, no step lowers the sent / received counter
\* or the error counter, and a transport event (open, frame, error, close)
\* raises the two counters by at most one in all.
CountersMonotonic ==
    [][lastAct'.name # "ShowStart" =>
          /\ messageCount' >= messageCount
          /\ errorCount' >= errorCount
          /\ lastAct'.name \in {"OnOpen", "OnMessage", "OnError", "OnClose"}
                => (messageCount' - messageCount) + (errorCount' - errorCount) <= 1]_vars

\* A producer that has counted an acknowledged send and then a transport error
CountedSendAndError ==
    /\ kind = "producer" /\ messageCount >= 1 /\ errorCount >= 1
    /\ lastAct.name = "OnError"

\* C28: when the producer's Open comes back from the metadata lookup of a
\* known cluster, the partition count is the looked-up one, or 0 if the
\* lookup failed, and exactly one connection is opened, which becomes the
\* session's: to partition selectedPartition of the topic when the count is
\* greater than 0, to the bare topic when it is 0.
OpenConnectsOnce ==
    [][\A i \in 1..MaxOpens, ok \in BOOLEAN :
          ProducerShowResume(i, ok, TRUE) =>
              /\ partitionCount' = (IF ok THEN TopicPartitions(lookups[i]) ELSE 0)
              /\ Len(conns') = Len(conns) + 1
              /\ ws' = Len(conns')
              /\ conns'[ws'].state = "CONNECTING"
              /\ conns'[ws'].topic = lookups[i]
              /\ conns'[ws'].partition =
                    (IF partitionCount' > 0 THEN selectedPartition ELSE NoPartition)
              /\ SubSeq(conns', 1, Len(conns)) = closeWebSocket(conns, ws)]_vars

\* C29: a switch to partition p on a known cluster closes the session's
\* connection and opens exactly one, to partition p of the topic, which
\* becomes the session's; and a frame the producer sends is written to the
\* session's connection and to no other.
SwitchReopensOnPartition ==
    /\ [][\A p \in 0..1 :
            ProducerSelectPartition(p, TRUE) =>
                /\ conns' = Append(closeWebSocket(conns, ws), NewConn(topicName, p))
                /\ ws' = Len(conns')]_vars
    /\ [][lastAct'.name = "Send" /\ lastAct'.frame = "sent" =>
            /\ ws' = ws /\ ws # 0
            /\ \A c \in 1..Len(conns) : c # ws => conns'[c] = conns[c]
            /\ Len(conns'[ws].sent) = Len(conns[ws].sent) + 1]_vars

\* C30: a send written to a connection that a partition switch or a new show
\* has replaced is not written again to any later connection, and an answer
\* frame that arrives on a connection that is no longer the session's leaves
\* the sent counter and the error counter as they were.
LateAnswersIgnored ==
    /\ [][\A c \in 1..Len(conns), f \in {"ok", "err"} :
            ProducerOnMessage(c, f) /\ c # ws =>
                messageCount' = messageCount /\ errorCount' = errorCount]_vars
    /\ [][\A c \in 1..Len(conns') :
            c > Len(conns) => conns'[c].sent = <<>>]_vars

\* C31: addCluster requests list-clusters only once its health check has
\* failed, and list-tenants only once its health check and its list-clusters
\* request have both failed; an addCluster whose health check passed never
\* requests list-clusters or list-tenants.
ProbeStepsInOrder ==
    [][\A i \in 1..Len(calls) :
          /\ calls[i].lc = -1 /\ calls'[i].lc # -1 => calls[i].hc \notin {-1, 200}
          /\ calls[i].lt = -1 /\ calls'[i].lt # -1 =>
                calls[i].hc \notin {-1, 200} /\ calls[i].lc \notin {-1, 200}
          /\ calls[i].hc = 200 => calls'[i].lc = -1 /\ calls'[i].lt = -1]_vars

\* an addCluster went through all three probes, and another stopped at a
\* health check that passed
ProbedAllThree ==
    /\ \E i \in 1..Len(calls) :
          calls[i].hc = NetworkError /\ calls[i].lc = NetworkError /\ calls[i].lt # -1
    /\ \E i \in 1..Len(calls) : calls[i].hc = 200 /\ calls[i].pc = "done"

\* C32: the handler of every consumed message sends its acknowledgment, then
\* applies the key filter, then posts the message to the page, and the
\* acknowledgment goes out on the connection that delivered the message, after
\* those of the messages that connection delivered before.
AckThenFilterThenEmit ==
    [][\A c \in 1..Len(conns), k \in FilterKeys :
          ConsumerOnMessage(c, k) =>
              /\ lastAct'.steps \in {<<"ack", "filter", "emit">>, <<"ack", "filter">>}
              /\ conns'[c].sent = Append(conns[c].sent, nextId)]_vars

\* C33: whenever no show() is awaiting its lookup and no socket of the session
\* has an event pending (each is open or has emitted its close), isConnected
\* is true exactly when the session's current connection is open.
StatusFollowsTransport ==
    (lookups = <<>> /\ \A c \in 1..Len(conns) : conns[c].state \in {"OPEN", "CLOSED"}) =>
        (isConnected <=> (ws # 0 /\ conns[ws].state = "OPEN"))

\* C34: whenever no addCluster or removeCluster call is in flight, the
\* persisted cluster list names exactly the clusters registered in memory.
PersistedNamesRegistered ==
    (\A i \in 1..Len(calls) : calls[i].pc = "done") =>
        DOMAIN persisted = DOMAIN clusters

\* C35: when the last pending metadata lookup of the producer's show() calls
\* returns with an answer, the partition count the session is left with is
\* that of the topic it displays, the topic of the last show() call.
CountOfDisplayedTopic ==
    [][\A i \in 1..MaxOpens, known \in BOOLEAN :
          ProducerShowResume(i, TRUE, known) /\ lookups' = <<>> =>
              partitionCount' = TopicPartitions(topicName')]_vars

\* C36: once every addManualNamespace call made for a cluster has completed,
\* where no other call was made, the list of the cluster holds the path of
\* every one of the calls; and no list ever holds a path twice.
ManualAddsAllStored ==
    /\ (\A i \in 1..Len(updates) :
            updates[i].done /\ updates[i].op = "add" /\ updates[i].cluster = "c1") =>
          \A i \in 1..Len(updates) :
              includes(manualNamespaces[updates[i].cluster], updates[i].path)
    /\ \A n \in Names : \A i, j \in 1..Len(manualNamespaces[n]) :
          manualNamespaces[n][i] = manualNamespaces[n][j] => i = j

\* C37: an emit invokes each listener that was registered when it started
\* exactly once, in registration order, whatever the kinds of the listeners;
\* and a once-listener is invoked at most once over all emits.
EmitInvokesEveryListener ==
    /\ bus.invoked = [i \in 1..Len(bus.snapshot) |-> bus.snapshot[i].id]
    /\ \A i \in 1..Len(bus.fired) :
          (\E j \in 1..Len(bus.snapshot) :
              bus.snapshot[j].id = i /\ bus.snapshot[j].kind = "once") => bus.fired[i] <= 1

\* C38: when the addCluster call of an 'Add Cluster' command with token
\* authentication fails on its probe, the secret store holds credentials for
\* the cluster's name only if it held them before the command started.
FailedAddLeavesNoSecret ==
    [][\A i \in 1..Len(calls) :
          /\ calls[i].op = "add" /\ calls[i].conn.authMethod = "token"
          /\ calls[i].result = "" /\ calls'[i].result = "failed"
          => (calls[i].conn.name \in secrets' <=> calls[i].conn.name \in calls[i].before)]_vars

\* C39: once the import has finished with a cluster that was registered when
\* it reached it, the name is still registered, and still has credentials if
\* it had them unless the imported cluster has replaced it; with append or
\* skip the cluster was passed over.
ImportKeepsExistingCluster ==
    importing.pc = "done" /\ importing.existed =>
        /\ importing.conn.name \in DOMAIN clusters
        /\ importing.hadSecret /\ importing.outcome # "updated" =>
              importing.conn.name \in secrets
        /\ importing.strategy \in {"append", "skip"} => importing.outcome = "skipped"

\* C40: a details or dashboard webview never has more than one refresh timer
\* running, and has none while it has no panel.
OneRefreshTimer ==
    /\ Cardinality(details.timers) <= 1
    /\ ~details.panel => details.timers = {}
====
